---- MODULE Spec2Model ----
(***************************************************************************)
(* Model of src/src/App.jsx (HorarioESP): the reservation form             *)
(* (ReservaForm: handleSubmit, crearReservaSimple,                         *)
(* crearReservasRecurrentes), the availability query                       *)
(* (ConsultaDisponibilidadView.handleBuscar) and the external table        *)
(* `reservas` they talk to; the application shell (SalonBookingApp: auth    *)
(* listener, loadSalones, loadReservas), MisReservasView, AdminView with   *)
(* SalonForm, LoginModal and WhitelistManager.                             *)
(*                                                                         *)
(* Time is counted in minutes.  A Date is the integer number of minutes of *)
(* its instant (UTC); NaN stands for an Invalid Date / NaN number and      *)
(* Undefined for a variable that was never assigned.  The local time zone  *)
(* has a constant offset (no daylight-saving change), so that              *)
(* Date.setDate(getDate() + 7*i) moves an instant by exactly 7*i days.     *)
(***************************************************************************)
EXTENDS Integers, Sequences, FiniteSets, TLC

(* ----------------------------- bounds ---------------------------------- *)
\* a session opens the form while the sessions have written fewer rows than this
MaxPropias == 1
\* pre-existing rows of other users lie in the weeks 0..MaxSemanaInicial
MaxSemanaInicial == 1
\* stop dates offered to the form are the days 1..MaxDiaLimite
MaxDiaLimite == 9
\* rows of the reservation snapshot the query view is given
MaxSnapshot == 2
\* an auth event arrives while fewer role lookups than this wait for an answer
MaxRoles == 2
\* a user or the auth service starts something that loads while fewer loads
\* than this are running
MaxCargas == 2
\* a cancellation is started while fewer deletes than this wait for an answer
MaxBorrados == 1
\* rooms an administrator creates
MaxAltas == 1
\* last day the calendar is moved to
MaxDiaCalendario == 2

(* ------------------------- dates and numbers --------------------------- *)
NaN == -1
Undefined == -2
MinPorDia == 24 * 60
Semana == 7 * MinPorDia
\* Date.getTimezoneOffset(): minutes the local clock is behind UTC
getTimezoneOffset == 5 * 60

\* new Date('YYYY-MM-DDTHH:MM'): a datetime-local string is read as local time
DateLocal(dia, minutos) == dia * MinPorDia + minutos + getTimezoneOffset
\* new Date('YYYY-MM-DD'): a date-only string is read as UTC midnight
DateUTC(dia) == IF dia = NaN THEN NaN ELSE dia * MinPorDia

\* relational operators of JavaScript: every comparison with NaN is false
JsLT(a, b) == a # NaN /\ b # NaN /\ a < b
JsLE(a, b) == a # NaN /\ b # NaN /\ a <= b
JsGT(a, b) == a # NaN /\ b # NaN /\ a > b
JsGE(a, b) == a # NaN /\ b # NaN /\ a >= b

Abs(x) == IF x < 0 THEN 0 - x ELSE x
\* Math.ceil(a / b) for a >= 0, b > 0
CeilDiv(a, b) == (a + b - 1) \div b

\* date.setDate(date.getDate() + 7 * i)
AddWeeks(d, i) == d + i * Semana

(* ------------------------------ domains -------------------------------- *)
Clients == {1, 2}
\* the session whose application shell is modelled; the other one is a
\* browser elsewhere, of which only the reservation form is modelled
Local == 1
OtroUsuario == 0
Salones == {1, 2}
NoSalon == 0
\* user === null
NoUser == -3
\* new Date() at the time the calendar is mounted: the day of the model
Hoy == 1
\* cancelando === null
NoId == 0
\* profiles.role of the identities (read-only for the application)
Rol == [u \in Clients |-> IF u = 1 THEN "admin" ELSE "user"]

\* values the <select> of the form offers for numSemanas
Presets == {16, 8, 4}
NumSemanasInicial == 16

\* datetime-local values typed into the form (day 1, local time)
FechasInicio == {DateLocal(1, 10 * 60), DateLocal(1, 19 * 60)}
FechasFin == {DateLocal(1, 11 * 60), DateLocal(1, 19 * 60), DateLocal(1, 20 * 60)}
\* date values typed into the stop-date field ('' is NaN)
FechasLimite == {NaN} \cup 1..MaxDiaLimite

Fila(s, u, ini, fin, sem) ==
    [salon_id |-> s, user_id |-> u, fecha_inicio |-> ini, fecha_fin |-> fin, semana |-> sem]

\* a row as the table returns it: the store gives every inserted row an id
ConId(r, n) == [id |-> n] @@ r

\* the rows of a batch, numbered by the store from n on
WithIds(lote, n) == [k \in 1..Len(lote) |-> ConId(lote[k], n + k - 1)]

\* intervals of the rows other users committed before the session starts
IntervalosIniciales ==
    { <<DateLocal(1 + 7 * w, h * 60), DateLocal(1 + 7 * w, (h + 1) * 60)>> :
          w \in 0..MaxSemanaInicial, h \in {9, 10, 11} }
    \cup { <<DateLocal(1, 10 * 60), DateLocal(8, 11 * 60)>> }

FilasIniciales ==
    { ConId(Fila(s, OtroUsuario, iv[1], iv[2], 0), 1) : s \in Salones, iv \in IntervalosIniciales }

\* values typed into the fields of the availability query
Fechas == {NaN, 1}
Horas == {<<>>, <<1, 0, 3, 0>>, <<1, 1, 3, 0>>}
\* the character 'e' in the value of an <input type="number">
LetraE == 10
\* '', '25' and '3e1' (the number 30 in exponent notation)
Capacidades == {<<>>, <<2, 5>>, <<3, LetraE, 1>>}

Salon(n, cap) == [id |-> n, capacidad |-> cap]

\* room lists a load can have left in `salones` (ordered by name)
SalonesSnapshots ==
    { <<>>, <<Salon(1, 20)>>, <<Salon(1, 20), Salon(2, 30)>>, <<Salon(1, 30), Salon(2, 20)>> }

IntervalosSnapshot ==
    { <<DateLocal(1, 10 * 60), DateLocal(1, 11 * 60)>>,
      <<DateLocal(1, 11 * 60), DateLocal(1, 12 * 60)>>,
      <<DateLocal(1, 9 * 60 + 30), DateLocal(1, 10 * 60 + 30)>>,
      <<DateLocal(1, 11 * 60 + 30), DateLocal(1, 12 * 60 + 30)>>,
      <<DateLocal(2, 10 * 60 + 30), DateLocal(2, 11 * 60 + 30)>> }

FilasSnapshot ==
    { Fila(s, OtroUsuario, iv[1], iv[2], 0) : s \in Salones, iv \in IntervalosSnapshot }

\* reservation lists a load can have left in `reservas`: the load asks for
\* them in ascending order of fecha_inicio
ReservasSnapshots ==
    { WithIds(rs, 1) : rs \in
        { rs \in UNION { [1..n -> FilasSnapshot] : n \in 0..MaxSnapshot } :
            \A n \in 1..(Len(rs) - 1) : rs[n].fecha_inicio <= rs[n + 1].fecha_inicio } }

VARIABLES
    store,               \* table `reservas` of the external store, in insertion order
    showReservaForm,     \* SalonesView: the form is mounted
    selectedSalon,       \* SalonesView: room the form is for
    fechaInicio, fechaFin, esRecurrente, tipoRecurrencia, numSemanas,
    fechaFinRecurrencia, \* ReservaForm: fields
    loading, error,      \* ReservaForm: state
    pc,                  \* position of the running handleSubmit: idle / probe / insert
    numReservas, fechaLimite, i, reservasRec, conflictos,
                         \* crearReservasRecurrentes: locals
    log,                 \* calls the current submission has issued, in order
    falloSonda,          \* some probe of the current submission got no data
    salones, reservas,   \* SalonBookingApp: the snapshots handed to the views
    fecha, horaInicio, horaFin, capacidadMinima,
    resultados,          \* ConsultaDisponibilidadView: fields and result
    nextId,              \* next id the store gives to a row of `reservas` / `salones`
    salonesDB,           \* table `salones` of the external store, in order of nombre
    user, isAdmin, currentView,
                         \* SalonBookingApp: state
    rolesEnVuelo,        \* role lookups of the auth listener not yet answered
    cargas,              \* running calls of loadSalones / loadReservas
    ultima,              \* the call of the shell or of a view that ended last, its
                         \* outcome and, for a load, the length of the list it found
    cancelando,          \* MisReservasView: state
    borrados,            \* deletes of handleCancelar not yet answered
    salonForm,           \* AdminView.showForm / editingSalon and SalonForm.loading
    adminOps,            \* writes of AdminView / SalonForm not yet answered
    whitelist,           \* table `whitelist` (emails) and the writes of WhitelistManager
    perfiles,            \* table `profiles` (emails)
    login,               \* LoginModal: state and the path the login took
    selectedDate,        \* CalendarioView: the day shown
    bloques,             \* CalendarioView: the reservation blocks rendered, per room
    arranque             \* SalonBookingApp.loading and its 3-second timer

formVars == <<fechaInicio, fechaFin, esRecurrente, tipoRecurrencia, numSemanas,
              fechaFinRecurrencia>>
recVars == <<numReservas, fechaLimite, i, reservasRec, conflictos>>
sesionVars == <<showReservaForm, selectedSalon, formVars, loading, error, pc,
                recVars, log, falloSonda>>
consultaVars == <<salones, reservas, fecha, horaInicio, horaFin, capacidadMinima,
                  resultados>>
authVars == <<user, isAdmin, currentView, rolesEnVuelo>>
cargaVars == <<cargas, ultima>>
misVars == <<cancelando, borrados>>
adminVars == <<salonForm, adminOps>>
loginVars == <<whitelist, perfiles, login>>
calendarioVars == <<selectedDate, bloques>>
appVars == <<salonesDB, authVars, cargaVars, misVars, adminVars, loginVars, calendarioVars,
             arranque>>
vars == <<store, nextId, sesionVars, consultaVars, appVars>>

NoError == [tipo |-> "null", semanas |-> <<>>]
NoLogin == [pc |-> "idle", email |-> <<>>, via |-> "ninguna", message |-> "null"]
NoEmail == <<>>
NoWhitelist == [filas |-> {}, alta |-> NoEmail, baja |-> NoEmail]
\* the shell once started: loading is false and the timer is gone
YaArrancado == [loading |-> FALSE, timer |-> FALSE]
NoCarga == [op |-> "ninguna", res |-> "ninguna", antes |-> 0]
NoSalonForm == [abierto |-> FALSE, editing |-> NoSalon, loading |-> FALSE]
\* `data` of an answer of the store: null on error, else the rows
NoData == [ok |-> FALSE, filas |-> {}]

Call(op, k, ini, fin, filas, res) ==
    [op |-> op, k |-> k, ini |-> ini, fin |-> fin, filas |-> filas, res |-> res]


(* --------------------------- ReservaForm ------------------------------- *)
\* instants of occurrence k of the series the form of client c describes
OcurrenciaInicio(c, k) == AddWeeks(fechaInicio[c], k)
OcurrenciaFin(c, k) == AddWeeks(fechaFin[c], k)

\* toLocaleDateString(...) of an instant: the local calendar day
DiaLocal(t) == (t - getTimezoneOffset) \div MinPorDia

\* the filter of the conflict probe:
\*   .eq('salon_id', salon.id).or(and(fecha_inicio.lte.<fin>, fecha_fin.gte.<inicio>))
ProbeMatch(r, s, inicio, fin) ==
    /\ r.salon_id = s
    /\ r.fecha_inicio <= fin
    /\ r.fecha_fin >= inicio

\* a head of crearReservasRecurrentes that plans one occurrence when the stop
\* date is empty
CalcNumReservasUnaSinFecha(tipo, ns, limite, inicioBase) ==
    IF tipo = "weeks" THEN ns
    ELSE IF limite = NaN THEN 1
    ELSE (CeilDiv(Abs(limite - inicioBase), MinPorDia) \div 7) + 1

\* numReservas as computed at the head of crearReservasRecurrentes
CalcNumReservas(tipo, ns, limite, inicioBase) ==
    IF tipo = "weeks" THEN ns
    ELSE IF limite = NaN THEN NaN
    ELSE (CeilDiv(Abs(limite - inicioBase), MinPorDia) \div 7) + 1

\* fechaLimite as set at the head of crearReservasRecurrentes
CalcFechaLimite(tipo, limite) == IF tipo = "weeks" THEN Undefined ELSE limite

\* the loop without its stop-date break
LoopContinuesSinBreak(j, nr, fl, inicioBase) == JsLT(j, nr)

\* loop test `i < numReservas` followed by the stop-date break
\*   if (fechaLimite && inicio > fechaLimite) break;
LoopContinues(j, nr, fl, inicioBase) ==
    /\ JsLT(j, nr)
    /\ ~ (fl # Undefined /\ JsGT(AddWeeks(inicioBase, j), fl))

\* the abort taken only from the second conflict on
HayConflictosDesdeDos(cf) == Len(cf) > 1

\* if (conflictos.length > 0) throw ...
HayConflictos(cf) == Len(cf) > 0

\* a validation that lets an empty window through
FechasInvalidasEstricto(inicio, fin) == JsLT(fin, inicio)

\* if (fin <= inicio) throw ...
FechasInvalidas(inicio, fin) == JsLE(fin, inicio)

\* a table that silently drops a batch overlapping a row of the same room
InsertRowsExcluyente(tabla, lote) ==
    IF \E n \in 1..Len(tabla), m \in 1..Len(lote) :
           /\ tabla[n].salon_id = lote[m].salon_id
           /\ tabla[n].fecha_inicio < lote[m].fecha_fin
           /\ tabla[n].fecha_fin > lote[m].fecha_inicio
    THEN tabla
    ELSE tabla \o lote

\* supabase.from('reservas').insert(rows), accepted by the store
InsertRows(tabla, lote) == tabla \o lote

\* The for loop of crearReservasRecurrentes from index j up to the next await:
\* either the probe of occurrence j is issued, or the loop is left and the
\* function throws the conflict list or issues the batch insert.
Bucle(c, j, nr, fl, rr, cf, lg) ==
    IF LoopContinues(j, nr, fl, fechaInicio'[c])
    THEN /\ pc' = [pc EXCEPT ![c] = "probe"]
         /\ log' = [log EXCEPT ![c] = Append(lg,
                Call("probe", j, AddWeeks(fechaInicio'[c], j), AddWeeks(fechaFin'[c], j), <<>>, "pendiente"))]
         /\ loading' = [loading EXCEPT ![c] = TRUE]
         /\ error' = [error EXCEPT ![c] = NoError]
    ELSE IF HayConflictos(cf)
    THEN /\ pc' = [pc EXCEPT ![c] = "idle"]
         /\ log' = [log EXCEPT ![c] = lg]
         /\ loading' = [loading EXCEPT ![c] = FALSE]
         /\ error' = [error EXCEPT ![c] = [tipo |-> "conflictos", semanas |-> cf]]
    ELSE /\ pc' = [pc EXCEPT ![c] = "insert"]
         /\ log' = [log EXCEPT ![c] = Append(lg, Call("insert", 0, 0, 0, rr, "pendiente"))]
         /\ loading' = [loading EXCEPT ![c] = TRUE]
         /\ error' = [error EXCEPT ![c] = NoError]

\* number of rows of the table written by the sessions of the model
FilasPropias == Cardinality({ n \in 1..Len(store) : store[n].user_id \in Clients })

\* the fields of a ReservaForm that was just mounted
CamposIniciales(c) ==
    /\ fechaInicio' = [fechaInicio EXCEPT ![c] = NaN]
    /\ fechaFin' = [fechaFin EXCEPT ![c] = NaN]
    /\ esRecurrente' = [esRecurrente EXCEPT ![c] = FALSE]
    /\ tipoRecurrencia' = [tipoRecurrencia EXCEPT ![c] = "weeks"]
    /\ numSemanas' = [numSemanas EXCEPT ![c] = NumSemanasInicial]
    /\ fechaFinRecurrencia' = [fechaFinRecurrencia EXCEPT ![c] = NaN]

\* no call of crearReservasRecurrentes is live: its locals do not exist
SinLocales(c) ==
    /\ numReservas' = [numReservas EXCEPT ![c] = Undefined]
    /\ fechaLimite' = [fechaLimite EXCEPT ![c] = Undefined]
    /\ i' = [i EXCEPT ![c] = 0]
    /\ reservasRec' = [reservasRec EXCEPT ![c] = <<>>]
    /\ conflictos' = [conflictos EXCEPT ![c] = <<>>]

\* SalonesView.handleReservar for a signed-in user: mounts a fresh ReservaForm
handleReservar(c, s) ==
    /\ UNCHANGED <<consultaVars, appVars>>
    /\ c = Local => (user = c /\ currentView = "salones")
    /\ ~ showReservaForm[c]
    /\ pc[c] = "idle"
    /\ FilasPropias < MaxPropias
    /\ showReservaForm' = [showReservaForm EXCEPT ![c] = TRUE]
    /\ selectedSalon' = [selectedSalon EXCEPT ![c] = s]
    /\ CamposIniciales(c)
    /\ loading' = [loading EXCEPT ![c] = FALSE]
    /\ error' = [error EXCEPT ![c] = NoError]
    /\ UNCHANGED <<store, nextId, pc, recVars, log, falloSonda>>

\* onClose of the form (the Cancelar button is disabled while loading): the
\* form is unmounted and its state is gone
onClose(c) ==
    /\ UNCHANGED <<consultaVars, appVars>>
    /\ showReservaForm[c]
    /\ ~ loading[c]
    /\ showReservaForm' = [showReservaForm EXCEPT ![c] = FALSE]
    /\ selectedSalon' = [selectedSalon EXCEPT ![c] = NoSalon]
    /\ CamposIniciales(c)
    /\ error' = [error EXCEPT ![c] = NoError]
    /\ SinLocales(c)
    /\ log' = [log EXCEPT ![c] = <<>>]
    /\ falloSonda' = [falloSonda EXCEPT ![c] = FALSE]
    /\ UNCHANGED <<store, nextId, loading, pc>>

\* The user fills the fields and presses submit: handleSubmit up to its first
\* await.  The fields fechaInicio and fechaFin are `required`, so they hold a date.
handleSubmit(c, fi, ff, rec, tipo, ns, lim) ==
    /\ UNCHANGED <<consultaVars, appVars>>
    /\ showReservaForm[c]
    /\ ~ loading[c]
    /\ pc[c] = "idle"
    /\ fechaInicio' = [fechaInicio EXCEPT ![c] = fi]
    /\ fechaFin' = [fechaFin EXCEPT ![c] = ff]
    /\ esRecurrente' = [esRecurrente EXCEPT ![c] = rec]
    /\ tipoRecurrencia' = [tipoRecurrencia EXCEPT ![c] = tipo]
    /\ numSemanas' = [numSemanas EXCEPT ![c] = ns]
    /\ fechaFinRecurrencia' = [fechaFinRecurrencia EXCEPT ![c] = lim]
    /\ falloSonda' = [falloSonda EXCEPT ![c] = FALSE]
    /\ UNCHANGED <<store, nextId, showReservaForm, selectedSalon>>
    /\ IF FechasInvalidas(fi, ff)
       THEN \* throw new Error('La fecha de fin debe ser posterior ...')
            /\ error' = [error EXCEPT ![c] = [tipo |-> "validacion", semanas |-> <<>>]]
            /\ loading' = [loading EXCEPT ![c] = FALSE]
            /\ log' = [log EXCEPT ![c] = <<>>]
            /\ SinLocales(c)
            /\ UNCHANGED pc
       ELSE IF rec
       THEN \* crearReservasRecurrentes(inicio, fin)
            LET nr == CalcNumReservas(tipo, ns, DateUTC(lim), fi)
                fl == CalcFechaLimite(tipo, DateUTC(lim))
            IN  /\ numReservas' = [numReservas EXCEPT ![c] = nr]
                /\ fechaLimite' = [fechaLimite EXCEPT ![c] = fl]
                /\ i' = [i EXCEPT ![c] = 0]
                /\ reservasRec' = [reservasRec EXCEPT ![c] = <<>>]
                /\ conflictos' = [conflictos EXCEPT ![c] = <<>>]
                /\ Bucle(c, 0, nr, fl, <<>>, <<>>, <<>>)
       ELSE \* crearReservaSimple(inicio, fin)
            /\ pc' = [pc EXCEPT ![c] = "insert"]
            /\ log' = [log EXCEPT ![c] =
                   <<Call("insert", 0, 0, 0, <<Fila(selectedSalon[c], c, fi, ff, 0)>>, "pendiente")>>]
            /\ loading' = [loading EXCEPT ![c] = TRUE]
            /\ error' = [error EXCEPT ![c] = NoError]
            /\ SinLocales(c)

\* a purpose text numbered from 0
SufijoDesdeCero(k) == k

\* proposito: `${proposito} (Semana ${i + 1})`
Sufijo(k) == k + 1

\* The answer to the conflict probe of occurrence i arrives; `falla` is a
\* backend error, which leaves `data` null.  The loop body is completed and
\* the loop runs on to its next await.
ProbeRespond(c, falla) ==
    /\ UNCHANGED <<consultaVars, appVars>>
    /\ pc[c] = "probe"
    /\ LET k == i[c]
           inicio == OcurrenciaInicio(c, k)
           fin == OcurrenciaFin(c, k)
           data == IF falla THEN NoData
                   ELSE [ok |-> TRUE,
                         filas |-> { n \in 1..Len(store) :
                                       ProbeMatch(store[n], selectedSalon[c], inicio, fin) }]
           hay == data.ok /\ Cardinality(data.filas) > 0
           cf == IF hay THEN Append(conflictos[c], [semana |-> k + 1, fecha |-> DiaLocal(inicio)])
                 ELSE conflictos[c]
           rr == IF hay THEN reservasRec[c]
                 ELSE Append(reservasRec[c], Fila(selectedSalon[c], c, inicio, fin, Sufijo(k)))
           lg == [log[c] EXCEPT ![Len(log[c])].res = IF hay THEN "conflicto" ELSE "libre"]
       IN  /\ conflictos' = [conflictos EXCEPT ![c] = cf]
           /\ reservasRec' = [reservasRec EXCEPT ![c] = rr]
           /\ i' = [i EXCEPT ![c] = k + 1]
           /\ falloSonda' = [falloSonda EXCEPT ![c] = falloSonda[c] \/ falla]
           /\ UNCHANGED <<store, nextId, showReservaForm, selectedSalon, formVars, numReservas, fechaLimite>>
           /\ Bucle(c, k + 1, numReservas[c], fechaLimite[c], rr, cf, lg)

\* The answer to the insert arrives.  The table takes the whole batch or, on
\* a backend error, nothing.  On success the form reports it and calls
\* onSuccess, which unmounts the form and starts loadReservas.
InsertRespond(c, falla) ==
    /\ UNCHANGED <<consultaVars, appVars>>
    /\ pc[c] = "insert"
    /\ pc' = [pc EXCEPT ![c] = "idle"]
    /\ loading' = [loading EXCEPT ![c] = FALSE]
    /\ LET n == Len(log[c])
           lote == log[c][n].filas
       IN  IF falla
           THEN /\ error' = [error EXCEPT ![c] = [tipo |-> "insert", semanas |-> <<>>]]
                /\ log' = [log EXCEPT ![c][n].res = "error"]
                /\ UNCHANGED <<store, nextId, showReservaForm, selectedSalon>>
           ELSE /\ store' = InsertRows(store, WithIds(lote, nextId.reservas))
                /\ nextId' = [nextId EXCEPT !.reservas = @ + Len(lote)]
                /\ error' = [error EXCEPT ![c] = NoError]
                /\ log' = [log EXCEPT ![c] =
                       [log[c] EXCEPT ![n].res = "ok"]
                       \o (IF esRecurrente[c]
                           THEN <<Call("alert", Len(lote), 0, 0, <<>>, "ok")>> ELSE <<>>)
                       \o <<Call("loadReservas", 0, 0, 0, <<>>, "pendiente")>>]
                /\ showReservaForm' = [showReservaForm EXCEPT ![c] = FALSE]
                /\ selectedSalon' = [selectedSalon EXCEPT ![c] = NoSalon]
    /\ UNCHANGED <<formVars, recVars, falloSonda>>

(* --------------------- ConsultaDisponibilidadView ---------------------- *)
\* a string as the sequence of its characters, a digit being its value: the
\* value of an <input type="time"> without its colon ("10:30" is
\* <<1, 0, 3, 0>>) or of an <input type="number"> ("3e1" is <<3, LetraE, 1>>);
\* <<>> is ''
StrLT(a, b) ==
    \/ \E k \in 1..Len(a) :
          /\ k <= Len(b)
          /\ \A j \in 1..(k - 1) : a[j] = b[j]
          /\ a[k] < b[k]
    \/ /\ Len(a) < Len(b)
       /\ \A j \in 1..Len(a) : a[j] = b[j]

\* a <= b on strings, as JavaScript compares them: code unit by code unit
StrLE(a, b) == a = b \/ StrLT(a, b)

\* minutes after midnight of the time string "HH:MM"
HoraAMin(h) == (h[1] * 10 + h[2]) * 60 + h[3] * 10 + h[4]

\* the number a string of digits denotes
RECURSIVE Decimal(_)
Decimal(str) ==
    IF Len(str) = 0 THEN 0
    ELSE Decimal(SubSeq(str, 1, Len(str) - 1)) * 10 + str[Len(str)]

\* parseInt(str): the number of the longest prefix of digits, NaN without one
parseInt(str) ==
    LET noDigitos == { k \in 1..Len(str) : str[k] \notin 0..9 }
        fin == IF noDigitos = {} THEN Len(str)
               ELSE (CHOOSE k \in noDigitos : \A j \in noDigitos : k <= j) - 1
    IN  IF fin = 0 THEN NaN ELSE Decimal(SubSeq(str, 1, fin))

\* an overlap test that also counts a touching boundary
SolapaInclusivo(inicio, fin, r) == JsLE(inicio, r.fecha_fin) /\ JsLE(r.fecha_inicio, fin)

\* the test of handleBuscar: the window [inicio, fin) against the row r
Solapa(inicio, fin, r) == JsLT(inicio, r.fecha_fin) /\ JsGT(fin, r.fecha_inicio)

\* a search that keeps the last row that overlaps
FindConflictoUltimo(rs, salonId, inicio, fin) ==
    LET hits == { n \in 1..Len(rs) : rs[n].salon_id = salonId /\ Solapa(inicio, fin, rs[n]) }
    IN  IF hits = {} THEN 0 ELSE CHOOSE n \in hits : \A m \in hits : n >= m

\* a search that forgets the room of the row
FindConflictoCualquierSalon(rs, salonId, inicio, fin) ==
    LET hits == { n \in 1..Len(rs) : Solapa(inicio, fin, rs[n]) }
    IN  IF hits = {} THEN 0 ELSE CHOOSE n \in hits : \A m \in hits : n <= m

\* reservas.find(...): index of the first row of the room that overlaps, 0 when none
FindConflicto(rs, salonId, inicio, fin) ==
    LET hits == { n \in 1..Len(rs) : rs[n].salon_id = salonId /\ Solapa(inicio, fin, rs[n]) }
    IN  IF hits = {} THEN 0 ELSE CHOOSE n \in hits : \A m \in hits : n <= m

\* salones.filter(s => s.capacidad >= parseInt(capacidadMinima)) when a minimum is given
SalonesDisponibles(ss, cap) ==
    IF Len(cap) > 0
    THEN LET min == parseInt(cap)
             Pasa(sl) == JsGE(sl.capacidad, min)
         IN  SelectSeq(ss, Pasa)
    ELSE ss

\* verdicts with the negation of `disponible` lost
VerdictosInvertido(ss, rs, cap, inicio, fin) ==
    LET cand == SalonesDisponibles(ss, cap)
    IN  [ n \in 1..Len(cand) |->
            LET cf == FindConflicto(rs, cand[n].id, inicio, fin)
            IN  [salon |-> cand[n].id, disponible |-> cf # 0, conflicto |-> cf] ]

\* the verdicts handleBuscar computes, one per candidate room
Verdictos(ss, rs, cap, inicio, fin) ==
    LET cand == SalonesDisponibles(ss, cap)
    IN  [ n \in 1..Len(cand) |->
            LET cf == FindConflicto(rs, cand[n].id, inicio, fin)
            IN  [salon |-> cand[n].id, disponible |-> cf = 0, conflicto |-> cf] ]

\* a check of the hours that lets equal hours through
HorasInvalidasEstricto(hi, hf) == StrLT(hf, hi)

\* if (horaFin <= horaInicio) { alert(...); return; }
HorasInvalidas(hi, hf) == StrLE(hf, hi)

\* resultados === null
NoResultados == <<[salon |-> NoSalon, disponible |-> FALSE, conflicto |-> 0]>>

\* The user fills the fields and presses Buscar.
handleBuscar(f, hi, hf, cap) ==
    /\ fecha' = f
    /\ horaInicio' = hi
    /\ horaFin' = hf
    /\ capacidadMinima' = cap
    /\ IF f = NaN \/ Len(hi) = 0 \/ Len(hf) = 0
       THEN \* alert('Por favor completa todos los campos requeridos')
            UNCHANGED resultados
       ELSE IF HorasInvalidas(hi, hf)
       THEN \* alert('La hora de fin debe ser posterior a la hora de inicio')
            UNCHANGED resultados
       ELSE resultados' = Verdictos(salones, reservas, cap,
                                    DateLocal(f, HoraAMin(hi)), DateLocal(f, HoraAMin(hf)))
    /\ UNCHANGED <<store, nextId, sesionVars, salones, reservas, appVars>>

handleLimpiar ==
    /\ fecha' = NaN
    /\ horaInicio' = <<>>
    /\ horaFin' = <<>>
    /\ capacidadMinima' = <<>>
    /\ resultados' = NoResultados
    /\ UNCHANGED <<store, nextId, sesionVars, salones, reservas, appVars>>

(* ---------------------------- SalonBookingApp --------------------------- *)
\* the running loads: how many calls of loadSalones and of loadReservas wait
\* for their first query, and how many calls of loadReservas for the fallback
Cargables == {"loadSalones", "loadReservas", "fallback"}
SinCargas == [op \in Cargables |-> 0]
Iniciar(cg, op) == [cg EXCEPT ![op] = @ + 1]
Terminar(cg, op) == [cg EXCEPT ![op] = @ - 1]
TotalCargas == cargas["loadSalones"] + cargas["loadReservas"] + cargas["fallback"]

\* calls to the store that wait for an answer
EnVuelo ==
    TotalCargas + Len(borrados) + Len(adminOps) + Len(rolesEnVuelo)
    + Cardinality({ c \in Clients : pc[c] # "idle" })
    + (IF login.pc = "idle" THEN 0 ELSE 1)
    + Cardinality({ n \in 1..Len(log[Local]) :
                      log[Local][n].op = "loadReservas"
                      /\ log[Local][n].res \in {"pendiente", "fallback"} })

\* .order('fecha_inicio', { ascending: true }): the rows of the table in an
\* order the store may return them in
RECURSIVE Ordenadas(_)
Ordenadas(tabla) ==
    IF tabla = <<>> THEN {<<>>}
    ELSE LET n == Len(tabla)
             primeras == { k \in 1..n :
                             \A j \in 1..n : tabla[k].fecha_inicio <= tabla[j].fecha_inicio }
             Sin(k) == SubSeq(tabla, 1, k - 1) \o SubSeq(tabla, k + 1, n)
         IN  UNION { { <<tabla[k]>> \o resto : resto \in Ordenadas(Sin(k)) } : k \in primeras }

\* an effect that loads the reservations for a visitor as well
EfectoUsuarioSiempre(cg, u) == Iniciar(Iniciar(cg, "loadSalones"), "loadReservas")

\* the effect on [user]: loadSalones(), and loadReservas() when a user is there
EfectoUsuario(cg, u) ==
    IF u = NoUser THEN Iniciar(cg, "loadSalones")
    ELSE Iniciar(Iniciar(cg, "loadSalones"), "loadReservas")

\* the branch of the listener without a user: setIsAdmin(false)
SinUsuario(adm) == FALSE

\* a write of the admin that waits for its answer; vivo: the AdminView that
\* issued it is still mounted; form: so is the SalonForm that issued it
AdminOp(op, id, cap, vivo) ==
    [op |-> op, id |-> id, cap |-> cap, vivo |-> vivo, form |-> vivo /\ op # "delete"]

\* the writes in flight after the views that issued them were unmounted
Huerfanos(ops) == [n \in 1..Len(ops) |-> [ops[n] EXCEPT !.vivo = FALSE, !.form = FALSE]]

\* AdminView is rendered on `currentView === 'admin' && isAdmin` and
\* MisReservasView on `currentView === 'mis-reservas' && user`: a view that
\* is no longer rendered is unmounted and its state is gone, while the
\* handlers it started run on
Desmontar(adm, u) ==
    /\ salonForm' = IF adm THEN salonForm ELSE NoSalonForm
    /\ adminOps' = IF adm THEN adminOps ELSE Huerfanos(adminOps)
    /\ cancelando' = IF u # NoUser THEN cancelando ELSE NoId

\* The listener of onAuthStateChange runs for the session of u (NoUser: no
\* session).  It sets the user, starts the role lookup in the background and,
\* the user having changed, the effect reloads the lists.
AuthEvent(u) ==
    /\ user' = u
    /\ IF u # NoUser
       THEN /\ rolesEnVuelo' = Append(rolesEnVuelo, u)
            /\ UNCHANGED isAdmin
       ELSE /\ isAdmin' = SinUsuario(isAdmin)
            /\ UNCHANGED rolesEnVuelo
    /\ cargas' = IF u # user THEN EfectoUsuario(cargas, u) ELSE cargas
    /\ Desmontar(isAdmin', u)
    /\ arranque' = YaArrancado
    /\ UNCHANGED <<store, nextId, sesionVars, consultaVars, salonesDB, currentView, ultima,
                   borrados, loginVars, calendarioVars>>

\* the answer to the role lookup n arrives: .then(({ data, error }) => ...)
RolRespond(n, falla) ==
    /\ n \in 1..Len(rolesEnVuelo)
    /\ isAdmin' = IF falla THEN FALSE ELSE Rol[rolesEnVuelo[n]] = "admin"
    /\ rolesEnVuelo' = SubSeq(rolesEnVuelo, 1, n - 1) \o SubSeq(rolesEnVuelo, n + 1, Len(rolesEnVuelo))
    /\ Desmontar(isAdmin', user)
    /\ UNCHANGED <<store, nextId, sesionVars, consultaVars, salonesDB, user, currentView,
                   cargaVars, borrados, loginVars, calendarioVars, arranque>>

\* the tabs the Header shows
Pestanas ==
    {"consulta", "salones"}
    \cup (IF user # NoUser THEN {"mis-reservas"} ELSE {})
    \cup (IF user # NoUser /\ isAdmin THEN {"admin"} ELSE {})

\* the calls recorded for a form that is gone: only a load that still runs
\* is kept
SoloCargas(lg) ==
    LET Corre(ll) == ll.op = "loadReservas" /\ ll.res \in {"pendiente", "fallback"}
    IN  SelectSeq(lg, Corre)

\* a click on a tab; a view that is left is unmounted and its state is gone,
\* while the handlers it started run on with what they captured
setCurrentView(v) ==
    /\ v \in Pestanas
    /\ v # currentView
    /\ currentView' = v
    /\ showReservaForm' = IF currentView = "salones"
                          THEN [showReservaForm EXCEPT ![Local] = FALSE]
                          ELSE showReservaForm
    /\ IF pc[Local] = "idle"
       THEN \* no handler of the form runs: nothing of the form is left
            /\ selectedSalon' = [selectedSalon EXCEPT ![Local] = NoSalon]
            /\ CamposIniciales(Local)
            /\ SinLocales(Local)
            /\ error' = [error EXCEPT ![Local] = NoError]
            /\ falloSonda' = [falloSonda EXCEPT ![Local] = FALSE]
            /\ log' = [log EXCEPT ![Local] = SoloCargas(log[Local])]
       ELSE UNCHANGED <<selectedSalon, formVars, error, recVars, log, falloSonda>>
    /\ salonForm' = IF currentView = "admin" THEN NoSalonForm ELSE salonForm
    /\ adminOps' = IF currentView = "admin" THEN Huerfanos(adminOps) ELSE adminOps
    /\ cancelando' = IF currentView = "mis-reservas" THEN NoId ELSE cancelando
    /\ UNCHANGED <<store, nextId, loading, pc, consultaVars, salonesDB, user, isAdmin,
                   rolesEnVuelo, cargaVars, borrados, loginVars, calendarioVars, arranque>>

\* the parameter isMounted of loadSalones and loadReservas.  The effect on
\* [user] passes the value its flag has at the call, `loadSalones(isMounted)`
\* with isMounted true, and its cleanup assigns the variable of the effect,
\* which the running call does not read; the calls made by onUpdate and
\* onSuccess take the default, true.
isMounted == TRUE

\* a load that keeps what it had when its query fails
ListaTrasFalloConserva(lista) == lista

\* setSalones([]) / setReservas([]) of a load whose last query failed
ListaTrasFallo(lista) == <<>>

\* The first query of a running loadSalones is answered.
SalonesRespond(falla) ==
    /\ cargas["loadSalones"] > 0
    /\ cargas' = Terminar(cargas, "loadSalones")
    /\ salones' = IF ~ isMounted THEN salones
                ELSE IF falla THEN ListaTrasFallo(salones) ELSE salonesDB
    /\ ultima' = [op |-> "loadSalones", res |-> IF falla THEN "error" ELSE "ok",
                  antes |-> Len(salones)]
    /\ UNCHANGED <<store, nextId, sesionVars, reservas, fecha, horaInicio, horaFin,
                   capacidadMinima, resultados, salonesDB, authVars, misVars, adminVars,
                   loginVars, calendarioVars, arranque>>

\* a load that gives up when its first query is answered with an error
TrasErrorJoinSinFallback(cg) == Terminar(cg, "loadReservas")

\* if (error) { ... await supabase.from('reservas').select(`*, salones (nombre)`) ... }:
\* the first query is over and the query without the join of profiles waits
TrasErrorJoin(cg) == Iniciar(Terminar(cg, "loadReservas"), "fallback")

\* The first query (with both joins) of a running loadReservas is answered:
\* on an error the fallback query is issued.
ReservasRespond(falla) ==
    /\ cargas["loadReservas"] > 0
    /\ IF falla
       THEN /\ cargas' = TrasErrorJoin(cargas)
            /\ UNCHANGED <<reservas, ultima>>
       ELSE /\ cargas' = Terminar(cargas, "loadReservas")
            /\ reservas' \in IF isMounted THEN Ordenadas(store) ELSE {reservas}
            /\ ultima' = [op |-> "loadReservas", res |-> "ok", antes |-> Len(reservas)]
    /\ UNCHANGED <<store, nextId, sesionVars, salones, fecha, horaInicio, horaFin,
                   capacidadMinima, resultados, salonesDB, authVars, misVars, adminVars,
                   loginVars, calendarioVars, arranque>>

\* The fallback query of a running loadReservas is answered.
FallbackRespond(falla) ==
    /\ cargas["fallback"] > 0
    /\ cargas' = Terminar(cargas, "fallback")
    /\ IF ~ isMounted
       THEN UNCHANGED reservas
       ELSE IF falla
       THEN reservas' = ListaTrasFallo(reservas)
       ELSE reservas' \in Ordenadas(store)
    /\ ultima' = [op |-> "loadReservas", res |-> IF falla THEN "error" ELSE "ok",
                  antes |-> Len(reservas)]
    /\ UNCHANGED <<store, nextId, sesionVars, salones, fecha, horaInicio, horaFin,
                   capacidadMinima, resultados, salonesDB, authVars, misVars, adminVars,
                   loginVars, calendarioVars, arranque>>

\* a deadline that passes without any effect
ListaTrasPlazoConserva(lista) == lista

\* the list after the 5000 ms timer won the race against the first query
ListaTrasPlazo(lista) == <<>>

\* The 5000 ms timer of a load fires while its first query is not answered:
\* Promise.race rejects, the catch empties the list and the load ends.
Plazo(op) ==
    /\ op \in {"loadSalones", "loadReservas"}
    /\ cargas[op] > 0
    /\ cargas' = Terminar(cargas, op)
    /\ IF ~ isMounted
       THEN UNCHANGED <<salones, reservas>>
       ELSE IF op = "loadSalones"
       THEN /\ salones' = ListaTrasPlazo(salones)
            /\ UNCHANGED reservas
       ELSE /\ reservas' = ListaTrasPlazo(reservas)
            /\ UNCHANGED salones
    /\ ultima' = [op |-> op, res |-> "timeout",
                  antes |-> IF op = "loadSalones" THEN Len(salones) ELSE Len(reservas)]
    /\ UNCHANGED <<store, nextId, sesionVars, fecha, horaInicio, horaFin, capacidadMinima,
                   resultados, salonesDB, authVars, misVars, adminVars, loginVars, calendarioVars, arranque>>

\* the call of loadReservas that onSuccess of the form of session c made and
\* that still runs: its index in the log, 0 when there is none
CargaDelForm(c) ==
    LET ns == { n \in 1..Len(log[c]) :
                  log[c][n].op = "loadReservas" /\ log[c][n].res \in {"pendiente", "fallback"} }
    IN  IF ns = {} THEN 0 ELSE CHOOSE n \in ns : TRUE

\* A query of the loadReservas started by onSuccess of the form of the local
\* session is answered, or its timer fires during the first query.
FormCargaRespond(ev) ==
    LET n == CargaDelForm(Local)
        etapa == log[Local][n].res
    IN  /\ n # 0
        /\ ev \in {"datos", "error", "plazo"}
        /\ ev = "plazo" => etapa = "pendiente"
        /\ IF ev = "error" /\ etapa = "pendiente"
           THEN /\ log' = [log EXCEPT ![Local][n].res = "fallback"]
                /\ UNCHANGED <<reservas, ultima>>
           ELSE /\ log' = [log EXCEPT ![Local][n].res =
                               IF ev = "datos" THEN "ok" ELSE IF ev = "plazo" THEN "timeout" ELSE "error"]
                /\ IF ~ isMounted THEN UNCHANGED reservas
                   ELSE IF ev = "datos" THEN reservas' \in Ordenadas(store)
                   ELSE IF ev = "plazo" THEN reservas' = ListaTrasPlazo(reservas)
                   ELSE reservas' = ListaTrasFallo(reservas)
                /\ ultima' = [op |-> "loadReservas",
                              res |-> IF ev = "datos" THEN "ok"
                                      ELSE IF ev = "plazo" THEN "timeout" ELSE "error",
                              antes |-> Len(reservas)]
        /\ UNCHANGED <<store, nextId, showReservaForm, selectedSalon, formVars, loading, error,
                       pc, recVars, falloSonda, salones, fecha, horaInicio, horaFin,
                       capacidadMinima, resultados, salonesDB, authVars, cargas, misVars,
                       adminVars, loginVars, calendarioVars, arranque>>

(* ---------------------------- MisReservasView --------------------------- *)
\* a view that is handed the whole snapshot
MisReservasTodas(rs, u) == rs

\* reservas.filter(r => r.user_id === user.id): the rows MisReservasView is given
MisReservas(rs, u) ==
    LET Suya(r) == r.user_id = u
    IN  SelectSeq(rs, Suya)

\* the view is rendered
MisReservasVisible == currentView = "mis-reservas" /\ user # NoUser

\* .delete().eq('id', reservaId), accepted by the store
DeleteRow(tabla, id) ==
    LET Otra(r) == r.id # id
    IN  SelectSeq(tabla, Otra)

\* A click on `Cancelar Reserva` of the card n of the view, confirmed:
\* handleCancelar up to its await.
handleCancelar(n) ==
    /\ MisReservasVisible
    /\ n \in 1..Len(MisReservas(reservas, user))
    /\ cancelando # MisReservas(reservas, user)[n].id
    /\ cancelando' = MisReservas(reservas, user)[n].id
    /\ borrados' = Append(borrados, MisReservas(reservas, user)[n].id)
    /\ UNCHANGED <<store, nextId, sesionVars, consultaVars, salonesDB, authVars, cargaVars,
                   adminVars, loginVars, calendarioVars, arranque>>

\* a view that forgets to ask for the reload
onUpdateOlvidado(cg, op) == cg

\* onUpdate(): the view calls the load it was handed (loadReservas or loadSalones)
onUpdate(cg, op) == Iniciar(cg, op)

\* The answer to the delete n arrives: on success onUpdate() starts
\* loadReservas; in both cases setCancelando(null).
CancelRespond(n, falla) ==
    /\ n \in 1..Len(borrados)
    /\ borrados' = SubSeq(borrados, 1, n - 1) \o SubSeq(borrados, n + 1, Len(borrados))
    /\ cancelando' = NoId
    /\ ultima' = [op |-> "delete", res |-> IF falla THEN "error" ELSE "ok", antes |-> 0]
    /\ IF falla
       THEN UNCHANGED <<store, cargas>>
       ELSE /\ store' = DeleteRow(store, borrados[n])
            /\ cargas' = onUpdate(cargas, "loadReservas")
    /\ UNCHANGED <<nextId, sesionVars, consultaVars, salonesDB, authVars, adminVars,
                   loginVars, calendarioVars, arranque>>

(* ------------------------- AdminView and SalonForm ---------------------- *)
\* the view is rendered
AdminVisible == currentView = "admin" /\ isAdmin

\* A click on `Eliminar` of the card n, confirmed: AdminView.handleDelete up
\* to its await.
handleDelete(n) ==
    /\ AdminVisible
    /\ ~ salonForm.abierto
    /\ n \in 1..Len(salones)
    /\ adminOps' = Append(adminOps, AdminOp("delete", salones[n].id, 0, TRUE))
    /\ UNCHANGED <<store, nextId, sesionVars, consultaVars, salonesDB, authVars, cargaVars,
                   misVars, salonForm, loginVars, calendarioVars, arranque>>

\* A click on `Editar` of the card n: the form is mounted for that room.
handleEdit(n) ==
    /\ AdminVisible
    /\ ~ salonForm.abierto
    /\ n \in 1..Len(salones)
    /\ salonForm' = [abierto |-> TRUE, editing |-> salones[n].id, loading |-> FALSE]
    /\ UNCHANGED <<store, nextId, sesionVars, consultaVars, salonesDB, authVars, cargaVars,
                   misVars, adminOps, loginVars, calendarioVars, arranque>>

\* A click on `+ Crear Nuevo Salon`: setShowForm(true) with no room.
setShowForm ==
    /\ AdminVisible
    /\ ~ salonForm.abierto
    /\ salonForm' = [abierto |-> TRUE, editing |-> NoSalon, loading |-> FALSE]
    /\ UNCHANGED <<store, nextId, sesionVars, consultaVars, salonesDB, authVars, cargaVars,
                   misVars, adminOps, loginVars, calendarioVars, arranque>>

\* onClose of the SalonForm (its Cancelar button is never disabled): the
\* form is unmounted
onCloseSalon ==
    /\ salonForm.abierto
    /\ salonForm' = NoSalonForm
    /\ adminOps' = [n \in 1..Len(adminOps) |-> [adminOps[n] EXCEPT !.form = FALSE]]
    /\ UNCHANGED <<store, nextId, sesionVars, consultaVars, salonesDB, authVars, cargaVars,
                   misVars, loginVars, calendarioVars, arranque>>

\* SalonForm.handleSubmit up to its await, with `cap` typed as capacity: an
\* update of the room being edited, or an insert.
handleSubmitSalon(cap) ==
    /\ salonForm.abierto
    /\ ~ salonForm.loading
    /\ salonForm' = [salonForm EXCEPT !.loading = TRUE]
    /\ adminOps' = Append(adminOps,
           AdminOp(IF salonForm.editing # NoSalon THEN "update" ELSE "insert",
                   salonForm.editing, parseInt(cap), TRUE))
    /\ UNCHANGED <<store, nextId, sesionVars, consultaVars, salonesDB, authVars, cargaVars,
                   misVars, loginVars, calendarioVars, arranque>>

\* the table `salones` after the write op was accepted; a new room gets the
\* next id and the place pos, its name deciding where it sorts
EscribirSalon(tabla, op, pos, id) ==
    IF op.op = "delete"
    THEN LET Otro(sl) == sl.id # op.id IN SelectSeq(tabla, Otro)
    ELSE IF op.op = "update"
    THEN [n \in 1..Len(tabla) |->
              IF tabla[n].id = op.id THEN Salon(op.id, op.cap) ELSE tabla[n]]
    ELSE SubSeq(tabla, 1, pos - 1) \o <<Salon(id, op.cap)>> \o SubSeq(tabla, pos, Len(tabla))

\* the rows of `reservas` left when the store deletes a room: the store
\* either refuses the delete or takes the reservations of the room with it
SinSalon(tabla, id) ==
    LET Otra(r) == r.salon_id # id
    IN  SelectSeq(tabla, Otra)

\* The answer to the write n of the admin arrives.  On success the handler
\* calls onUpdate() (loadSalones), SalonForm through onSuccess, which closes
\* the form; on an error AdminView alerts and SalonForm shows the message.
AdminRespond(n, falla, pos) ==
    /\ n \in 1..Len(adminOps)
    /\ pos \in 1..(Len(salonesDB) + 1)
    /\ LET op == adminOps[n]
       IN  /\ adminOps' = SubSeq(adminOps, 1, n - 1) \o SubSeq(adminOps, n + 1, Len(adminOps))
           /\ ultima' = [op |-> "salon-" \o op.op, res |-> IF falla THEN "error" ELSE "ok",
                         antes |-> 0]
           /\ IF falla
              THEN /\ UNCHANGED <<store, salonesDB, nextId, cargas>>
                   /\ salonForm' = IF op.form
                                    THEN [salonForm EXCEPT !.loading = FALSE]
                                    ELSE salonForm
              ELSE /\ salonesDB' = EscribirSalon(salonesDB, op, pos, nextId.salones)
                   /\ nextId' = IF op.op = "insert"
                                 THEN [nextId EXCEPT !.salones = @ + 1] ELSE nextId
                   /\ store' = IF op.op = "delete" THEN SinSalon(store, op.id) ELSE store
                   /\ cargas' = onUpdate(cargas, "loadSalones")
                   /\ salonForm' = IF op.op # "delete" /\ op.vivo THEN NoSalonForm ELSE salonForm
    /\ UNCHANGED <<sesionVars, consultaVars, authVars, misVars, loginVars, calendarioVars, arranque>>

(* --------------------- LoginModal and WhitelistManager ------------------ *)
\* String.prototype.toLowerCase on the letters of the model
Minuscula(ch) == IF ch = "A" THEN "a" ELSE IF ch = "B" THEN "b" ELSE ch
toLowerCase(str) == [k \in DOMAIN str |-> Minuscula(str[k])]

\* String.prototype.trim
RECURSIVE trim(_)
trim(str) ==
    IF str = <<>> THEN str
    ELSE IF Head(str) = " " THEN trim(Tail(str))
    ELSE IF str[Len(str)] = " " THEN trim(SubSeq(str, 1, Len(str) - 1))
    ELSE str

\* email.toLowerCase().trim()
Normalizar(str) == trim(toLowerCase(str))

\* LoginModal.handleLogin up to its first await: the lookup of the email in
\* `profiles` is issued
handleLogin(raw) ==
    /\ login.pc = "idle"
    /\ login' = [pc |-> "lookup", email |-> Normalizar(raw), via |-> "ninguna",
                 message |-> "null"]
    /\ UNCHANGED <<store, nextId, sesionVars, consultaVars, salonesDB, authVars, cargaVars,
                   misVars, adminVars, whitelist, perfiles, calendarioVars, arranque>>

\* the table the login looks the email up in
TablaDelLogin(wl, pf) == pf

\* The lookup is answered (`falla`: with an error, which leaves `profile`
\* null and is not looked at): signInWithPassword when a row was found,
\* enviarMagicLink(emailLower, false) otherwise.
LookupRespond(falla) ==
    /\ login.pc = "lookup"
    /\ LET profile == ~ falla /\ login.email \in TablaDelLogin(whitelist.filas, perfiles)
       IN  login' = IF profile
                    THEN [login EXCEPT !.pc = "password", !.via = "password"]
                    ELSE [login EXCEPT !.pc = "otp", !.via = "otp"]
    /\ UNCHANGED <<store, nextId, sesionVars, consultaVars, salonesDB, authVars, cargaVars,
                   misVars, adminVars, whitelist, perfiles, calendarioVars, arranque>>

\* signInWithPassword is answered: on authError the magic link is sent as
\* a fallback, else the welcome message is shown
PasswordRespond(falla) ==
    /\ login.pc = "password"
    /\ login' = IF falla
                 THEN [login EXCEPT !.pc = "otp"]
                 ELSE [login EXCEPT !.pc = "idle", !.message = "bienvenido"]
    /\ UNCHANGED <<store, nextId, sesionVars, consultaVars, salonesDB, authVars, cargaVars,
                   misVars, adminVars, whitelist, perfiles, calendarioVars, arranque>>

\* signInWithOtp of enviarMagicLink is answered
OtpRespond(falla) ==
    /\ login.pc = "otp"
    /\ login' = [login EXCEPT
                    !.pc = "idle",
                    !.message = IF falla THEN "error"
                                ELSE IF login.via = "password" THEN "pre-aprobado"
                                ELSE "enlace"]
    /\ UNCHANGED <<store, nextId, sesionVars, consultaVars, salonesDB, authVars, cargaVars,
                   misVars, adminVars, whitelist, perfiles, calendarioVars, arranque>>

\* WhitelistManager.handleAdd up to its await (the form is disabled while
\* `adding`)
handleAdd(raw) ==
    /\ whitelist.alta = NoEmail
    /\ whitelist' = [whitelist EXCEPT !.alta = Normalizar(raw)]
    /\ UNCHANGED <<store, nextId, sesionVars, consultaVars, salonesDB, authVars, cargaVars,
                   misVars, adminVars, perfiles, login, calendarioVars, arranque>>

\* The insert into `whitelist` is answered; the email column is unique.
AddRespond(falla) ==
    /\ whitelist.alta # NoEmail
    /\ whitelist' = [whitelist EXCEPT
                        !.alta = NoEmail,
                        !.filas = IF falla \/ whitelist.alta \in @ THEN @
                                  ELSE @ \cup {whitelist.alta}]
    /\ UNCHANGED <<store, nextId, sesionVars, consultaVars, salonesDB, authVars, cargaVars,
                   misVars, adminVars, perfiles, login, calendarioVars, arranque>>

\* WhitelistManager.handleDelete of a row shown, confirmed, up to its await
handleDeleteWhitelist(em) ==
    /\ em \in whitelist.filas
    /\ whitelist.baja = NoEmail
    /\ whitelist' = [whitelist EXCEPT !.baja = em]
    /\ UNCHANGED <<store, nextId, sesionVars, consultaVars, salonesDB, authVars, cargaVars,
                   misVars, adminVars, perfiles, login, calendarioVars, arranque>>

\* The delete from `whitelist` is answered.
DeleteWhitelistRespond(falla) ==
    /\ whitelist.baja # NoEmail
    /\ whitelist' = [whitelist EXCEPT
                        !.baja = NoEmail,
                        !.filas = IF falla THEN @ ELSE @ \ {whitelist.baja}]
    /\ UNCHANGED <<store, nextId, sesionVars, consultaVars, salonesDB, authVars, cargaVars,
                   misVars, adminVars, perfiles, login, calendarioVars, arranque>>

(* ----------------------------- CalendarioView --------------------------- *)
\* the hours of the timeline and the height of one hour in px
HoraInicioDia == 6
HoraFinDia == 22
PxPorHora == 60

\* Math.max / Math.min
Max(a, b) == IF a >= b THEN a ELSE b
Min(a, b) == IF a <= b THEN a ELSE b

\* Date.prototype.getHours / getMinutes of an instant, in local time
getHours(t) == ((t - getTimezoneOffset) % MinPorDia) \div 60
getMinutes(t) == ((t - getTimezoneOffset) % MinPorDia) % 60

\* getHours() + getMinutes() / 60, kept in sixtieths of an hour
HoraDecimal60(t) == getHours(t) * 60 + getMinutes(t)

\* a placement that does not clip the start
calculateReservaPositionSinRecorte(reserva) ==
    LET startHour == HoraDecimal60(reserva.fecha_inicio)
        endHour == HoraDecimal60(reserva.fecha_fin)
        displayEndHour == Min(endHour, HoraFinDia * 60)
    IN  [top |-> ((startHour - HoraInicioDia * 60) * PxPorHora) \div 60,
         height |-> ((displayEndHour - startHour) * PxPorHora) \div 60]

\* calculateReservaPosition: the start is raised to 6, the end lowered to 22
calculateReservaPosition(reserva) ==
    LET startHour == HoraDecimal60(reserva.fecha_inicio)
        endHour == HoraDecimal60(reserva.fecha_fin)
        displayStartHour == Max(startHour, HoraInicioDia * 60)
        displayEndHour == Min(endHour, HoraFinDia * 60)
    IN  [top |-> ((displayStartHour - HoraInicioDia * 60) * PxPorHora) \div 60,
         height |-> ((displayEndHour - displayStartHour) * PxPorHora) \div 60]

\* getReservasForSalonOnDate: the rows of the room that touch the day, from
\* 00:00:00.000 to 23:59:59.999 local time
getReservasForSalonOnDate(rs, salonId, date) ==
    LET startOfDay == DateLocal(date, 0)
        endOfDay == DateLocal(date, MinPorDia - 1)
        Toca(r) == /\ r.salon_id = salonId
                   /\ r.fecha_inicio <= endOfDay
                   /\ r.fecha_fin >= startOfDay
    IN  SelectSeq(rs, Toca)

\* the timelines rendered: for every room, salonReservas.map(reserva => a
\* block at calculateReservaPosition(reserva))
Timelines(ss, rs, date) ==
    [n \in 1..Len(ss) |->
        LET salonReservas == getReservasForSalonOnDate(rs, ss[n].id, date)
        IN  [salon |-> ss[n].id,
             blocks |-> [k \in 1..Len(salonReservas) |->
                            [id |-> salonReservas[k].id]
                            @@ calculateReservaPosition(salonReservas[k])]]]

\* changeDate(days): the day shown moves and the view is rendered again
changeDate(days) ==
    /\ selectedDate' = selectedDate + days
    /\ bloques' = Timelines(salones, reservas, selectedDate')
    /\ UNCHANGED <<store, nextId, sesionVars, consultaVars, salonesDB, authVars, cargaVars,
                   misVars, adminVars, loginVars, arranque>>

\* goToToday
goToToday ==
    /\ selectedDate' = Hoy
    /\ bloques' = Timelines(salones, reservas, selectedDate')
    /\ UNCHANGED <<store, nextId, sesionVars, consultaVars, salonesDB, authVars, cargaVars,
                   misVars, adminVars, loginVars, arranque>>

(* --------------------------- specifications ---------------------------- *)
InitSesiones ==
    /\ showReservaForm = [c \in Clients |-> FALSE]
    /\ selectedSalon = [c \in Clients |-> NoSalon]
    /\ fechaInicio = [c \in Clients |-> NaN]
    /\ fechaFin = [c \in Clients |-> NaN]
    /\ esRecurrente = [c \in Clients |-> FALSE]
    /\ tipoRecurrencia = [c \in Clients |-> "weeks"]
    /\ numSemanas = [c \in Clients |-> NumSemanasInicial]
    /\ fechaFinRecurrencia = [c \in Clients |-> NaN]
    /\ loading = [c \in Clients |-> FALSE]
    /\ error = [c \in Clients |-> NoError]
    /\ pc = [c \in Clients |-> "idle"]
    /\ numReservas = [c \in Clients |-> Undefined]
    /\ fechaLimite = [c \in Clients |-> Undefined]
    /\ i = [c \in Clients |-> 0]
    /\ reservasRec = [c \in Clients |-> <<>>]
    /\ conflictos = [c \in Clients |-> <<>>]
    /\ log = [c \in Clients |-> <<>>]
    /\ falloSonda = [c \in Clients |-> FALSE]

\* the query view as mounted, over the snapshots ss and rs
InitConsulta(ss, rs) ==
    /\ salones = ss
    /\ reservas = rs
    /\ fecha = NaN
    /\ horaInicio = <<>>
    /\ horaFin = <<>>
    /\ capacidadMinima = <<>>
    /\ resultados = NoResultados

\* the views and the login modal as mounted, no write in flight
InitVistas ==
    /\ cancelando = NoId
    /\ borrados = <<>>
    /\ salonForm = NoSalonForm
    /\ adminOps = <<>>
    /\ login = NoLogin
    /\ selectedDate = Hoy
    /\ bloques = <<>>
    /\ arranque = YaArrancado

\* the application shell at rest for the signed-in user u: nothing in flight
InitApp(u) ==
    /\ nextId = [reservas |-> Len(store) + 1, salones |-> 3]
    /\ salonesDB = <<Salon(1, 20), Salon(2, 30)>>
    /\ user = u
    /\ isAdmin = (Rol[u] = "admin")
    /\ currentView = "salones"
    /\ rolesEnVuelo = <<>>
    /\ cargas = SinCargas
    /\ ultima = NoCarga
    /\ InitVistas
    /\ whitelist = NoWhitelist
    /\ perfiles = {}

\* one session; the table holds what other users committed before
Init ==
    /\ store \in {<<>>} \cup { <<r>> : r \in FilasIniciales }
    /\ InitApp(Local)
    /\ InitSesiones
    /\ InitConsulta(<<>>, <<>>)

\* The fields a user fills: the recurrence fields are only shown, and so only
\* changed from their initial values, when the corresponding mode is chosen.
Campos ==
    { f \in [rec : BOOLEAN, tipo : {"weeks", "date"}, ns : Presets, lim : FechasLimite] :
        /\ (~ f.rec) => f.tipo = "weeks"
        /\ (f.tipo = "weeks") => f.lim = NaN
        /\ (f.tipo = "date" \/ ~ f.rec) => f.ns = NumSemanasInicial }

Enviar(c) ==
    \E fi \in FechasInicio, ff \in FechasFin, f \in Campos :
        handleSubmit(c, fi, ff, f.rec, f.tipo, f.ns, f.lim)

\* a single booking or the 4-week preset
CamposBasicos == { f \in Campos : f.tipo = "weeks" /\ (f.rec => f.ns = 4) }

EnviarBasico(c) ==
    \E fi \in FechasInicio, ff \in FechasFin, f \in CamposBasicos :
        handleSubmit(c, fi, ff, f.rec, f.tipo, f.ns, f.lim)

\* submit of the form as it is filled
EnviarLleno(c) ==
    handleSubmit(c, fechaInicio[c], fechaFin[c], esRecurrente[c], tipoRecurrencia[c],
                 numSemanas[c], fechaFinRecurrencia[c])

Buscar ==
    \E f \in Fechas, hi \in Horas, hf \in Horas, cap \in Capacidades :
        handleBuscar(f, hi, hf, cap)

Abrir(c) == \E s \in Salones : handleReservar(c, s)
Sonda(c) == \E falla \in BOOLEAN : ProbeRespond(c, falla)
SondaLibre == ProbeRespond(Local, FALSE)
Insercion(c) == \E falla \in BOOLEAN : InsertRespond(c, falla)

Next ==
    \/ Abrir(1)
    \/ onClose(1)
    \/ Enviar(1)
    \/ Sonda(1)
    \/ Insercion(1)

Spec == Init /\ [][Next]_vars

\* the availability query over the snapshots a load can have left
InitQuery ==
    /\ store = <<>>
    /\ InitApp(Local)
    /\ InitSesiones
    /\ \E ss \in SalonesSnapshots, rs \in ReservasSnapshots : InitConsulta(ss, rs)

NextQuery ==
    \/ Buscar
    \/ handleLimpiar

SpecQuery == InitQuery /\ [][NextQuery]_vars

\* two sessions whose forms are mounted and filled with a weekly series of 4
InitRace ==
    /\ store = <<>>
    /\ InitApp(Local)
    /\ InitConsulta(<<>>, <<>>)
    /\ showReservaForm = [c \in Clients |-> TRUE]
    /\ selectedSalon \in [Clients -> Salones]
    /\ fechaInicio \in [Clients -> FechasInicio]
    /\ fechaFin \in [Clients -> FechasFin]
    /\ esRecurrente = [c \in Clients |-> TRUE]
    /\ tipoRecurrencia = [c \in Clients |-> "weeks"]
    /\ numSemanas = [c \in Clients |-> 4]
    /\ fechaFinRecurrencia = [c \in Clients |-> NaN]
    /\ loading = [c \in Clients |-> FALSE]
    /\ error = [c \in Clients |-> NoError]
    /\ pc = [c \in Clients |-> "idle"]
    /\ numReservas = [c \in Clients |-> Undefined]
    /\ fechaLimite = [c \in Clients |-> Undefined]
    /\ i = [c \in Clients |-> 0]
    /\ reservasRec = [c \in Clients |-> <<>>]
    /\ conflictos = [c \in Clients |-> <<>>]
    /\ log = [c \in Clients |-> <<>>]
    /\ falloSonda = [c \in Clients |-> FALSE]

NextRace ==
    \E c \in Clients :
        \/ EnviarLleno(c)
        \/ Sonda(c)
        \/ Insercion(c)

SpecRace == InitRace /\ [][NextRace]_vars

\* one session that uses the form and the availability query
InitValidacion ==
    /\ store = <<>>
    /\ InitApp(Local)
    /\ InitSesiones
    /\ InitConsulta(<<Salon(1, 20), Salon(2, 30)>>,
                    WithIds(<<Fila(1, OtroUsuario, DateLocal(1, 10 * 60), DateLocal(1, 11 * 60), 0),
                              Fila(1, OtroUsuario, DateLocal(1, 11 * 60), DateLocal(1, 12 * 60), 0)>>, 1))

NextValidacion ==
    \/ Abrir(1)
    \/ onClose(1)
    \/ EnviarBasico(1)
    \/ Sonda(1)
    \/ Insercion(1)
    \/ Buscar
    \/ handleLimpiar

SpecValidacion == InitValidacion /\ [][NextValidacion]_vars

\* the table `reservas` with one reservation of each user, in room 1
DosDuenos ==
    WithIds(<<Fila(1, 1, DateLocal(1, 10 * 60), DateLocal(1, 11 * 60), 0),
              Fila(1, 2, DateLocal(1, 11 * 60), DateLocal(1, 12 * 60), 0)>>, 1)

\* the application right after it was mounted, before the auth service has
\* reported a session: the effect has started loadSalones
InitAuth ==
    /\ store = DosDuenos
    /\ nextId = [reservas |-> 3, salones |-> 3]
    /\ salonesDB = <<Salon(1, 20), Salon(2, 30)>>
    /\ user = NoUser
    /\ isAdmin = FALSE
    /\ currentView = "consulta"
    /\ rolesEnVuelo = <<>>
    /\ cargas = Iniciar(SinCargas, "loadSalones")
    /\ ultima = NoCarga
    /\ InitVistas
    /\ whitelist = NoWhitelist
    /\ perfiles = {}
    /\ InitSesiones
    /\ InitConsulta(<<>>, <<>>)

Sesion ==
    \E u \in Clients \cup {NoUser} :
        /\ Len(rolesEnVuelo) < MaxRoles
        /\ TotalCargas < MaxCargas
        /\ AuthEvent(u)

Rol_ == \E n \in 1..Len(rolesEnVuelo), falla \in BOOLEAN : RolRespond(n, falla)
Vista == \E v \in {"consulta", "salones", "mis-reservas", "admin"} : setCurrentView(v)
CargaSalones == \E falla \in BOOLEAN : SalonesRespond(falla)
CargaReservas == \E falla \in BOOLEAN : ReservasRespond(falla)
CargaFallback == \E falla \in BOOLEAN : FallbackRespond(falla)
Temporizador == \E op \in {"loadSalones", "loadReservas"} : Plazo(op)

Cancelar ==
    /\ Len(borrados) < MaxBorrados
    /\ TotalCargas < MaxCargas
    /\ \E n \in 1..Len(reservas) : handleCancelar(n)

Borrado == \E n \in 1..Len(borrados), falla \in BOOLEAN : CancelRespond(n, falla)

NextAuth ==
    \/ Sesion
    \/ Rol_
    \/ Vista
    \/ CargaSalones
    \/ CargaReservas
    \/ CargaFallback
    \/ Temporizador
    \/ Cancelar
    \/ Borrado

SpecAuth == InitAuth /\ [][NextAuth]_vars

\* values typed into the capacity field of the SalonForm
CapacidadesSalon == {<<2, 0>>}

\* the application of the signed-in administrator (user 1) right after the
\* effect on [user] has started loadSalones and loadReservas; the store holds
\* one room and one reservation of somebody else
InitMutaciones ==
    /\ store = <<ConId(Fila(1, OtroUsuario, DateLocal(1, 19 * 60), DateLocal(1, 20 * 60), 0), 1)>>
    /\ nextId = [reservas |-> 2, salones |-> 2]
    /\ salonesDB = <<Salon(1, 20)>>
    /\ user = Local
    /\ isAdmin = TRUE
    /\ currentView = "salones"
    /\ rolesEnVuelo = <<>>
    /\ cargas = EfectoUsuario(SinCargas, Local)
    /\ ultima = NoCarga
    /\ InitVistas
    /\ whitelist = NoWhitelist
    /\ perfiles = {}
    /\ InitSesiones
    /\ InitConsulta(<<>>, <<>>)

\* the user starts a write when no call to the store waits for its answer
Reposo == EnVuelo = 0

\* a click on `Reservar` of a card of the room list
AbrirLista ==
    /\ Reposo
    /\ nextId.reservas < 2 + MaxPropias
    /\ \E n \in 1..Len(salones) : handleReservar(Local, salones[n].id)

\* submit of the form for day 1, 10:00 to 11:00: a single reservation, or a
\* weekly one with the preset of 4 weeks
EnviarUno ==
    /\ Reposo
    /\ \E rec \in BOOLEAN :
          handleSubmit(Local, DateLocal(1, 10 * 60), DateLocal(1, 11 * 60), rec, "weeks",
                       IF rec THEN 4 ELSE NumSemanasInicial, NaN)

FormCarga == \E ev \in {"datos", "error", "plazo"} : FormCargaRespond(ev)

\* a click on `Cancelar Reserva` of the first card of the view
CancelarUno ==
    /\ Reposo
    /\ handleCancelar(1)

EliminarSalon ==
    /\ Reposo
    /\ \E n \in 1..Len(salones) : handleDelete(n)

Editar == \E n \in 1..Len(salones) : handleEdit(n)

Crear ==
    /\ nextId.salones < 2 + MaxAltas
    /\ setShowForm

GuardarSalon ==
    /\ Reposo
    /\ \E cap \in CapacidadesSalon : handleSubmitSalon(cap)

EscrituraSalon ==
    \E n \in 1..Len(adminOps), falla \in BOOLEAN :
        AdminRespond(n, falla, Len(salonesDB) + 1)

NextMutaciones ==
    \/ Vista
    \/ AbrirLista
    \/ onClose(Local)
    \/ EnviarUno
    \/ SondaLibre
    \/ Insercion(Local)
    \/ FormCarga
    \/ CargaSalones
    \/ CargaReservas
    \/ CargaFallback
    \/ Temporizador
    \/ CancelarUno
    \/ Borrado
    \/ EliminarSalon
    \/ Editar
    \/ Crear
    \/ onCloseSalon
    \/ GuardarSalon
    \/ EscrituraSalon

SpecMutaciones == InitMutaciones /\ [][NextMutaciones]_vars

\* The calls of a signed-in user who books and cancels, with the timers of
\* the loads running: a timer that was set fires unless the race it is in
\* was decided before.  The backend owes no answer.
NextPlazos ==
    \/ Vista
    \/ AbrirLista
    \/ onClose(Local)
    \/ EnviarUno
    \/ SondaLibre
    \/ Insercion(Local)
    \/ FormCarga
    \/ CargaSalones
    \/ CargaReservas
    \/ CargaFallback
    \/ Temporizador
    \/ CancelarUno
    \/ Borrado

SpecPlazos ==
    /\ InitMutaciones
    /\ [][NextPlazos]_vars
    /\ WF_vars(Plazo("loadSalones"))
    /\ WF_vars(Plazo("loadReservas"))
    /\ WF_vars(FormCargaRespond("plazo"))

\* what is typed into the email fields
EmailsTecleados == {<<"a">>, <<"A", " ">>, <<"b">>}

\* A visitor at the login modal while an administrator edits the whitelist;
\* `profiles` holds the rows of the accounts that exist.
InitLogin ==
    /\ store = <<>>
    /\ nextId = [reservas |-> 1, salones |-> 3]
    /\ salonesDB = <<Salon(1, 20), Salon(2, 30)>>
    /\ user = NoUser
    /\ isAdmin = FALSE
    /\ currentView = "consulta"
    /\ rolesEnVuelo = <<>>
    /\ cargas = SinCargas
    /\ ultima = NoCarga
    /\ InitVistas
    /\ whitelist = NoWhitelist
    /\ perfiles \in SUBSET { Normalizar(raw) : raw \in EmailsTecleados }
    /\ InitSesiones
    /\ InitConsulta(salonesDB, <<>>)

Entrar == \E raw \in EmailsTecleados : handleLogin(raw)
Lookup == \E falla \in BOOLEAN : LookupRespond(falla)
Password == \E falla \in BOOLEAN : PasswordRespond(falla)
Otp == \E falla \in BOOLEAN : OtpRespond(falla)
Agregar == \E raw \in EmailsTecleados : handleAdd(raw)
Agregado == \E falla \in BOOLEAN : AddRespond(falla)
Quitar == \E em \in whitelist.filas : handleDeleteWhitelist(em)
Quitado == \E falla \in BOOLEAN : DeleteWhitelistRespond(falla)

NextLogin ==
    \/ Entrar
    \/ Lookup
    \/ Password
    \/ Otp
    \/ Agregar
    \/ Agregado
    \/ Quitar
    \/ Quitado

SpecLogin == InitLogin /\ [][NextLogin]_vars

\* intervals of the rows of a snapshot shown on the calendar: inside the
\* timeline, across its start, across its end, before it, after it, and
\* over midnight
IntervalosCalendario ==
    { <<DateLocal(1, 9 * 60), DateLocal(1, 10 * 60 + 30)>>,
      <<DateLocal(1, 5 * 60), DateLocal(1, 7 * 60)>>,
      <<DateLocal(1, 21 * 60), DateLocal(1, 23 * 60)>>,
      <<DateLocal(1, 4 * 60), DateLocal(1, 5 * 60 + 30)>>,
      <<DateLocal(1, 23 * 60), DateLocal(1, 23 * 60 + 30)>>,
      <<DateLocal(1, 20 * 60), DateLocal(2, 8 * 60)>> }

FilasCalendario ==
    { Fila(s, OtroUsuario, iv[1], iv[2], 0) : s \in Salones, iv \in IntervalosCalendario }

SnapshotsCalendario ==
    { WithIds(rs, 1) : rs \in
        { rs \in UNION { [1..n -> FilasCalendario] : n \in 0..MaxSnapshot } :
            \A n \in 1..(Len(rs) - 1) : rs[n].fecha_inicio <= rs[n + 1].fecha_inicio } }

\* the calendar of the room view, mounted on today with the lists loaded
InitCalendario ==
    /\ store = <<>>
    /\ nextId = [reservas |-> 1, salones |-> 3]
    /\ salonesDB = <<Salon(1, 20), Salon(2, 30)>>
    /\ user = NoUser
    /\ isAdmin = FALSE
    /\ currentView = "salones"
    /\ rolesEnVuelo = <<>>
    /\ cargas = SinCargas
    /\ ultima = NoCarga
    /\ cancelando = NoId
    /\ borrados = <<>>
    /\ salonForm = NoSalonForm
    /\ adminOps = <<>>
    /\ login = NoLogin
    /\ arranque = YaArrancado
    /\ whitelist = NoWhitelist
    /\ perfiles = {}
    /\ InitSesiones
    /\ \E rs \in SnapshotsCalendario : InitConsulta(salonesDB, rs)
    /\ selectedDate = Hoy
    /\ bloques = Timelines(salones, reservas, selectedDate)

Anterior == selectedDate > 0 /\ changeDate(-1)
Siguiente == selectedDate < MaxDiaCalendario /\ changeDate(1)

NextCalendario ==
    \/ Anterior
    \/ goToToday
    \/ Siguiente

SpecCalendario == InitCalendario /\ [][NextCalendario]_vars

(* ------------------------------ properties ----------------------------- *)
\* indices of the calls `op` in the log of session c
Llamadas(c, op) == { n \in 1..Len(log[c]) : log[c][n].op = op }

\* the fields of session c passed the validation of handleSubmit
CamposAceptados(c) == fechaInicio[c] # NaN /\ fechaFin[c] > fechaInicio[c]

\* strict overlap of the half-open intervals [a, b) and [x, y)
SeSolapan(a, b, x, y) == a < y /\ b > x

\* 1-based numbers of the occurrences whose probe found a conflict, in order
RECURSIVE SemanasEnConflicto(_)
SemanasEnConflicto(lg) ==
    IF Len(lg) = 0 THEN <<>>
    ELSE LET e == lg[Len(lg)]
             antes == SemanasEnConflicto(SubSeq(lg, 1, Len(lg) - 1))
         IN  IF e.op = "probe" /\ e.res = "conflicto" THEN Append(antes, e.k + 1) ELSE antes

\* the row r of the table is the row f a client sent
MismaFila(r, f) == \A campo \in DOMAIN f : r[campo] = f[campo]

\* the rows of the table that session c wrote
FilasDe(tabla, c) ==
    LET Suya(r) == r.user_id = c
    IN  SelectSeq(tabla, Suya)

\* C1: a recurring booking one of whose probes found a conflict issues no
\* insert and writes no row, and once it has ended the conflict list it
\* reports holds exactly the 1-based numbers of the occurrences whose probe
\* found a conflict.
C1_TodoONada ==
    [][ \A c \in Clients :
          LET semanas == SemanasEnConflicto(log'[c])
          IN  Len(semanas) > 0 =>
                /\ \A n \in 1..Len(log'[c]) : log'[c][n].op # "insert"
                /\ FilasDe(store', c) = FilasDe(store, c)
                /\ pc'[c] = "idle" =>
                      /\ error'[c].tipo = "conflictos"
                      /\ Len(error'[c].semanas) = Len(semanas)
                      /\ \A n \in 1..Len(semanas) :
                            error'[c].semanas[n].semana = semanas[n] ]_vars

\* a series ended with two conflicting occurrences reported
C1_Witness ==
    \E c \in Clients :
        /\ pc[c] = "idle"
        /\ error[c].tipo = "conflictos"
        /\ Len(error[c].semanas) = 2
        /\ Len(log[c]) >= 4

\* C2: a recurring booking one of whose probes got an error or no data from
\* the store issues no insert.
C2_FalloCerrado ==
    \A c \in Clients : falloSonda[c] => Llamadas(c, "insert") = {}

\* C3: the answer to the probe of occurrence [s, e) counts as a conflict
\* exactly when the table holds a row [x, y) of the target room with s < y
\* and e > x.
C3_SondaEquivalente ==
    [][ \A c \in Clients :
          (pc[c] = "probe" /\ i'[c] = i[c] + 1 /\ ~ falloSonda'[c]) =>
             ( (Len(conflictos'[c]) > Len(conflictos[c]))
               <=> \E n \in 1..Len(store) :
                      /\ store[n].salon_id = selectedSalon[c]
                      /\ SeSolapan(OcurrenciaInicio(c, i[c]), OcurrenciaFin(c, i[c]),
                                   store[n].fecha_inicio, store[n].fecha_fin) ) ]_vars

\* C4: no row written by a single booking overlaps another row of its room.
C4_SinSolapes ==
    \A n, m \in 1..Len(store) :
        ( /\ n # m
          /\ store[n].user_id \in Clients
          /\ store[n].semana = 0
          /\ store[n].salon_id = store[m].salon_id )
        => ~ SeSolapan(store[n].fecha_inicio, store[n].fecha_fin,
                       store[m].fecha_inicio, store[m].fecha_fin)

\* the fields of the query passed the checks of handleBuscar
ConsultaValida ==
    /\ fecha # NaN
    /\ Len(horaInicio) > 0
    /\ Len(horaFin) > 0
    /\ HoraAMin(horaFin) > HoraAMin(horaInicio)

VentanaInicio == DateLocal(fecha, HoraAMin(horaInicio))
VentanaFin == DateLocal(fecha, HoraAMin(horaFin))

\* C5: after a search over the window [a, b) a room is reported unavailable
\* exactly when the snapshot holds a row [x, y) of that room with a < y and
\* b > x, and the row reported as the conflict is such a row of that room.
C5_SolapeConsulta ==
    ConsultaValida =>
        /\ resultados # NoResultados
        /\ \A n \in 1..Len(resultados) :
              LET v == resultados[n]
              IN  /\ v.disponible <=>
                        ~ \E m \in 1..Len(reservas) :
                              /\ reservas[m].salon_id = v.salon
                              /\ VentanaInicio < reservas[m].fecha_fin
                              /\ VentanaFin > reservas[m].fecha_inicio
                  /\ v.disponible <=> v.conflicto = 0
                  /\ v.conflicto # 0 =>
                        /\ v.conflicto \in 1..Len(reservas)
                        /\ reservas[v.conflicto].salon_id = v.salon
                        /\ VentanaInicio < reservas[v.conflicto].fecha_fin
                        /\ VentanaFin > reservas[v.conflicto].fecha_inicio

\* a room is reported available although a row of it touches the window, and
\* another room is reported unavailable
C5_Witness ==
    /\ ConsultaValida
    /\ resultados # NoResultados
    /\ \E n \in 1..Len(resultados) :
          /\ resultados[n].disponible
          /\ \E m \in 1..Len(reservas) :
                /\ reservas[m].salon_id = resultados[n].salon
                /\ \/ reservas[m].fecha_inicio = VentanaFin
                   \/ reservas[m].fecha_fin = VentanaInicio
    /\ \E n \in 1..Len(resultados) : ~ resultados[n].disponible

\* C6: a weekly series of N over a table without a row that overlaps one of
\* its occurrences ends with a batch insert of exactly N rows, row k (from 0)
\* running from the base start plus 7k days to the base end plus 7k days,
\* and the rows are in the table when the store accepts the batch.
C6_SerieCompleta ==
    \A c \in Clients :
        LET N == numSemanas[c]
            ins == Llamadas(c, "insert")
            sala == IF ins = {} THEN selectedSalon[c]
                    ELSE log[c][CHOOSE n \in ins : TRUE].filas[1].salon_id
            ocupado == \E k \in 0..(N - 1), n \in 1..Len(store) :
                          /\ store[n].user_id # c
                          /\ store[n].salon_id = sala
                          /\ SeSolapan(OcurrenciaInicio(c, k), OcurrenciaFin(c, k),
                                       store[n].fecha_inicio, store[n].fecha_fin)
        IN  ( /\ CamposAceptados(c)
              /\ esRecurrente[c]
              /\ tipoRecurrencia[c] = "weeks"
              /\ pc[c] = "idle"
              /\ ~ ocupado )
            => \E n \in ins :
                  LET lote == log[c][n].filas
                  IN  /\ Len(lote) = N
                      /\ \A k \in 0..(N - 1) :
                            /\ lote[k + 1].fecha_inicio = fechaInicio[c] + k * 7 * MinPorDia
                            /\ lote[k + 1].fecha_fin = fechaFin[c] + k * 7 * MinPorDia
                      /\ log[c][n].res = "ok" =>
                            \A k \in 1..N : \E m \in 1..Len(store) : MismaFila(store[m], lote[k])

\* occurrences k >= 0 of session c that start on or before the stop date
HastaLimite(c) ==
    { k \in 0..MaxDiaLimite :
        fechaInicio[c] + k * 7 * MinPorDia <= fechaFinRecurrencia[c] * MinPorDia }

Exito(c) == Llamadas(c, "alert") # {} /\ error[c] = NoError

\* the row of the first occurrence of the batch session c inserted
PrimeraFila(c) == log[c][CHOOSE n \in Llamadas(c, "insert") : TRUE].filas[1]

\* both sessions reported success for overlapping series of one room
DobleExito(c, d) ==
    /\ c # d
    /\ Exito(c)
    /\ Exito(d)
    /\ PrimeraFila(c).salon_id = PrimeraFila(d).salon_id
    /\ SeSolapan(fechaInicio[c], fechaFin[c], fechaInicio[d], fechaFin[d])

\* C8: when two sessions have both reported success for overlapping series
\* of one room, the table holds the rows of both, overlapping each other:
\* the double booking is committed and neither session shows an error.
C8_DobleReserva ==
    \A c, d \in Clients :
        DobleExito(c, d) =>
            \E n, m \in 1..Len(store) :
                /\ store[n].user_id = c
                /\ store[m].user_id = d
                /\ store[n].salon_id = store[m].salon_id
                /\ SeSolapan(store[n].fecha_inicio, store[n].fecha_fin,
                             store[m].fecha_inicio, store[m].fecha_fin)

\* both sessions passed their probes without a failure and both committed
C8_Witness ==
    /\ DobleExito(1, 2)
    /\ ~ falloSonda[1]
    /\ ~ falloSonda[2]
    /\ Len(store) = 8

\* C9: every row a session put into a batch or into the table ends strictly
\* after it starts.
C9_FinDespuesDeInicio ==
    /\ \A n \in 1..Len(store) :
          store[n].user_id \in Clients => store[n].fecha_fin > store[n].fecha_inicio
    /\ \A c \in Clients : \A n \in Llamadas(c, "insert") :
          \A k \in 1..Len(log[c][n].filas) :
              log[c][n].filas[k].fecha_fin > log[c][n].filas[k].fecha_inicio

\* the table holds the rows of a single booking or of a whole series
C9_Witness ==
    /\ \E n \in 1..Len(store) : store[n].user_id \in Clients /\ store[n].semana = 4
    /\ \E c \in Clients : esRecurrente[c] /\ Llamadas(c, "alert") # {}

\* the fields of the query do not pass the checks of handleBuscar
ConsultaInvalida ==
    \/ fecha = NaN
    \/ Len(horaInicio) = 0
    \/ Len(horaFin) = 0
    \/ HoraAMin(horaFin) <= HoraAMin(horaInicio)

\* the form of session c holds a window with end <= start
VentanaInvalida(c) == fechaInicio[c] # NaN /\ fechaFin[c] <= fechaInicio[c]

\* C10: a step that leaves the form with a window with end <= start has
\* issued no probe and no insert, left the table alone and set the inline
\* error; a step that leaves the query with a missing field or with
\* end <= start has left the results as they were, unless it cleared the
\* whole view.
C10_ValidacionPrimero ==
    [][ /\ \A c \in Clients :
              VentanaInvalida(c)' =>
                 /\ log'[c] = <<>>
                 /\ store' = store
                 /\ pc'[c] = "idle"
                 /\ ~ loading'[c]
                 /\ error'[c].tipo = "validacion"
                 /\ showReservaForm'[c] = showReservaForm[c]
                 /\ selectedSalon'[c] = selectedSalon[c]
        /\ ConsultaInvalida' =>
              \/ resultados' = resultados
              \/ /\ resultados' = NoResultados
                 /\ fecha' = NaN
                 /\ Len(horaInicio') = 0
                 /\ Len(horaFin') = 0
                 /\ Len(capacidadMinima') = 0 ]_vars

\* a rejected submission shows its error while the query, filled with equal
\* hours, still shows the results of an earlier search
C10_Witness ==
    /\ VentanaInvalida(1)
    /\ error[1].tipo = "validacion"
    /\ fecha # NaN
    /\ Len(horaInicio) > 0
    /\ horaFin = horaInicio
    /\ resultados # NoResultados
    /\ Len(resultados) > 0

\* the number the value of an <input type="number"> denotes: mantissa times
\* ten to the exponent after the 'e'
RECURSIVE Potencia10(_)
Potencia10(n) == IF n = 0 THEN 1 ELSE 10 * Potencia10(n - 1)

ValorNumero(str) ==
    LET es == { k \in 1..Len(str) : str[k] = LetraE }
    IN  IF es = {} THEN Decimal(str)
        ELSE LET k == CHOOSE k \in es : TRUE
             IN  Decimal(SubSeq(str, 1, k - 1)) * Potencia10(Decimal(SubSeq(str, k + 1, Len(str))))

\* the ids of the rooms of a list of verdicts, in order
SalonesDe(vs) == [n \in 1..Len(vs) |-> vs[n].salon]

\* C17: after a search with a minimum capacity the result holds, in the
\* order of the room list, exactly the rooms whose capacity is at least the
\* number typed as the minimum.
C17_FiltroCapacidad ==
    (ConsultaValida /\ Len(capacidadMinima) > 0) =>
        LET min == ValorNumero(capacidadMinima)
            Cabe(sl) == sl.capacidad >= min
            caben == SelectSeq(salones, Cabe)
        IN  SalonesDe(resultados) = [n \in 1..Len(caben) |-> caben[n].id]

\* room s has the rows [10:00, 11:00) and [11:00, 12:00) of day 1 in the
\* snapshot, and the query asked for [10:30, 11:30) of that day
DosSeguidas(s) ==
    /\ ConsultaValida
    /\ VentanaInicio = DateLocal(1, 10 * 60 + 30)
    /\ VentanaFin = DateLocal(1, 11 * 60 + 30)
    /\ \E n \in 1..Len(reservas) :
          /\ reservas[n].salon_id = s
          /\ reservas[n].fecha_inicio = DateLocal(1, 10 * 60)
          /\ reservas[n].fecha_fin = DateLocal(1, 11 * 60)
    /\ \E n \in 1..Len(reservas) :
          /\ reservas[n].salon_id = s
          /\ reservas[n].fecha_inicio = DateLocal(1, 11 * 60)
          /\ reservas[n].fecha_fin = DateLocal(1, 12 * 60)

\* C18 as stated: in that scenario the room is reported unavailable and the
\* one reservation attached to the verdict is the second one, [11:00, 12:00).
C18_SegundaReserva ==
    \A s \in Salones : DosSeguidas(s) =>
        \A n \in 1..Len(resultados) :
            resultados[n].salon = s =>
                /\ ~ resultados[n].disponible
                /\ resultados[n].conflicto \in 1..Len(reservas)
                /\ reservas[resultados[n].conflicto].salon_id = s
                /\ reservas[resultados[n].conflicto].fecha_inicio = DateLocal(1, 11 * 60)
                /\ reservas[resultados[n].conflicto].fecha_fin = DateLocal(1, 12 * 60)

\* C18 as amended: in that scenario the room is reported unavailable and the
\* one reservation attached to the verdict is the first one in the order of
\* the snapshot, [10:00, 11:00), which overlaps the window as well.
C18_PrimeraReserva ==
    \A s \in Salones : DosSeguidas(s) =>
        \A n \in 1..Len(resultados) :
            resultados[n].salon = s =>
                /\ ~ resultados[n].disponible
                /\ resultados[n].conflicto \in 1..Len(reservas)
                /\ reservas[resultados[n].conflicto].salon_id = s
                /\ reservas[resultados[n].conflicto].fecha_inicio = DateLocal(1, 10 * 60)
                /\ reservas[resultados[n].conflicto].fecha_fin = DateLocal(1, 11 * 60)
                /\ \A m \in 1..(resultados[n].conflicto - 1) :
                      ~ (reservas[m].salon_id = s
                         /\ SeSolapan(VentanaInicio, VentanaFin,
                                      reservas[m].fecha_inicio, reservas[m].fecha_fin))

\* the scenario was searched and the room got its verdict
C18_Witness ==
    \E s \in Salones :
        /\ DosSeguidas(s)
        /\ \E n \in 1..Len(resultados) :
              resultados[n].salon = s /\ resultados[n].conflicto = 1

\* C19: after a search over an empty reservation snapshot every verdict is
\* available with no conflict attached and belongs to a room of the list, no
\* room twice; without a minimum capacity there is one verdict per room of
\* the list, in order; and over an empty room list the result is the empty
\* list.
C19_SinReservas ==
    (ConsultaValida /\ Len(reservas) = 0) =>
        /\ resultados # NoResultados
        /\ \A n \in 1..Len(resultados) :
              /\ resultados[n].disponible
              /\ resultados[n].conflicto = 0
              /\ \E m \in 1..Len(salones) : salones[m].id = resultados[n].salon
              /\ \A m \in 1..Len(resultados) :
                    resultados[m].salon = resultados[n].salon => m = n
        /\ Len(capacidadMinima) = 0 =>
              SalonesDe(resultados) = [n \in 1..Len(salones) |-> salones[n].id]
        /\ Len(salones) = 0 => resultados = <<>>

\* two rooms were searched over an empty snapshot
C19_Witness ==
    /\ ConsultaValida
    /\ Len(reservas) = 0
    /\ Len(resultados) = 2
    /\ \A n \in 1..2 : resultados[n].disponible

\* C14: the role flag is set only while a user is signed in whose role is
\* admin.
C14_AdminSoloConRol ==
    isAdmin => (user # NoUser /\ Rol[user] = "admin")

\* C15: a step that issues a delete issues it while a user is signed in, for
\* the id of a row of the snapshot whose user_id is the id of that user, and
\* a row of the table with that id belongs to that user.
C15_BorraSoloPropias ==
    [][ Len(borrados') > Len(borrados) =>
          LET id == borrados'[Len(borrados')]
          IN  /\ user # NoUser
              /\ user' = user
              /\ \E n \in 1..Len(reservas) :
                    reservas[n].id = id /\ reservas[n].user_id = user
              /\ \A n \in 1..Len(store) :
                    store[n].id = id => store[n].user_id = user ]_vars

\* user 2 cancels their reservation out of a snapshot that also holds a
\* reservation of user 1
C15_Witness ==
    /\ user = 2
    /\ Len(borrados) = 1
    /\ cancelando = borrados[1]
    /\ \E n \in 1..Len(reservas) : reservas[n].user_id = 1
    /\ \E n \in 1..Len(reservas) : reservas[n].user_id = 2 /\ reservas[n].id = cancelando

\* a step in which a running load ends, `ultima` telling which and how
FinDeCarga == TotalCargas' < TotalCargas

\* a step in which a running load ends without data: the backend reported an
\* error on the last query tried, or the timer won
CargaFallida == FinDeCarga /\ ultima'.res \in {"error", "timeout"}

\* the list a load writes
ListaDe(op, ss, rs) == IF op = "loadSalones" THEN ss ELSE rs

\* C11 (as stated): a reload of the room list or of the reservation list
\* that fails (backend error or timeout) leaves the previously loaded
\* snapshot in place: both lists are after the step what they were before.
C11_FalloConserva ==
    [][CargaFallida => (salones' = salones /\ reservas' = reservas)]_vars

\* C11 (amended): a reload that fails (backend error on the last query tried,
\* or timeout) replaces the list it loads by the empty list and leaves the
\* other list alone.
C11_FalloVacia ==
    [][CargaFallida =>
          /\ ListaDe(ultima'.op, salones', reservas') = <<>>
          /\ ultima'.op = "loadSalones" => reservas' = reservas
          /\ ultima'.op = "loadReservas" => salones' = salones]_vars

\* C11 witness: the fallback query of a reload of the reservations failed
\* while the list held rows and the table still holds some; the list is empty
C11_Witness ==
    /\ ultima = [op |-> "loadReservas", res |-> "error", antes |-> Len(store)]
    /\ Len(store) > 0
    /\ reservas = <<>>

\* C12: when the timer of a bulk load of rooms or reservations fires before
\* the backend answered, the load ends as failed (no fallback query is
\* issued, no call of that load is left running) and the list it loads is
\* set to the empty list.
C12_PlazoVacia ==
    [][(FinDeCarga /\ ultima'.res = "timeout") =>
          /\ ListaDe(ultima'.op, salones', reservas') = <<>>
          /\ cargas'[ultima'.op] = cargas[ultima'.op] - 1
          /\ cargas'["fallback"] = cargas["fallback"]]_vars

\* C12 witness: the timer of a reload of the rooms fired while the list held
\* the rooms of the table; the list is empty
C12_Witness ==
    /\ ultima = [op |-> "loadSalones", res |-> "timeout", antes |-> Len(salonesDB)]
    /\ Len(salonesDB) > 0
    /\ salones = <<>>

\* a step in which a query of the loadReservas that onSuccess of the booking
\* form started gives the call its result
FinCargaForm ==
    \E n \in DOMAIN log[Local] :
        /\ n \in DOMAIN log'[Local]
        /\ log[Local][n].op = "loadReservas"
        /\ log[Local][n].res \in {"pendiente", "fallback"}
        /\ log'[Local][n].op = "loadReservas"
        /\ log'[Local][n].res \in {"ok", "error", "timeout"}

\* the calls of loadReservas started by onSuccess of the booking form that run
CargasDelForm(lg) ==
    { n \in DOMAIN lg : lg[n].op = "loadReservas" /\ lg[n].res = "pendiente" }

\* C16: the room list and the reservation list change only in a step in
\* which a load ends; the step in which a mutation succeeds (booking insert,
\* cancellation, room insert, update or delete) starts the load of the list
\* the mutation is about (loadReservas for bookings and cancellations,
\* loadSalones for rooms), and the step in which a mutation fails starts none.
C16_SoloCargas ==
    [][/\ (salones' # salones \/ reservas' # reservas) => (FinDeCarga \/ FinCargaForm)
       /\ (pc[Local] = "insert" /\ pc'[Local] = "idle") =>
              /\ cargas' = cargas
              /\ IF error'[Local] = NoError
                 THEN CargasDelForm(log'[Local]) # {} /\ store' # store
                 ELSE CargasDelForm(log'[Local]) = {} /\ store' = store
       /\ Len(borrados') < Len(borrados) =>
              /\ ultima'.op = "delete"
              /\ cargas' = IF ultima'.res = "ok"
                            THEN [cargas EXCEPT !["loadReservas"] = @ + 1] ELSE cargas
       /\ Len(adminOps') < Len(adminOps) =>
              /\ ultima'.op \in {"salon-insert", "salon-update", "salon-delete"}
              /\ cargas' = IF ultima'.res = "ok"
                            THEN [cargas EXCEPT !["loadSalones"] = @ + 1] ELSE cargas]_vars

\* C16 witness: a cancellation succeeded and its reload runs; the list
\* still shows the row that is gone from the table
C16_Witness ==
    /\ ultima = [op |-> "delete", res |-> "ok", antes |-> 0]
    /\ cargas["loadReservas"] = 1
    /\ \E n \in 1..Len(reservas) :
          /\ reservas[n].user_id = Local
          /\ \A k \in 1..Len(store) : store[k].id # reservas[n].id

\* C13: every call to the store completes or is given up after a bounded
\* time: a bulk load, a fallback load, a conflict probe, an insert and a
\* delete that wait for the backend each eventually stop waiting, whatever
\* the backend does.
C13_LlamadaAcotada ==
    /\ (cargas["loadSalones"] > 0) ~> (cargas["loadSalones"] = 0)
    /\ (cargas["loadReservas"] > 0) ~> (cargas["loadReservas"] = 0)
    /\ (cargas["fallback"] > 0) ~> (cargas["fallback"] = 0)
    /\ (CargaDelForm(Local) # 0) ~> (CargaDelForm(Local) = 0)
    /\ \A k \in 0..NumSemanasInicial :
          (pc[Local] = "probe" /\ i[Local] = k) ~> ~ (pc[Local] = "probe" /\ i[Local] = k)
    /\ (pc[Local] = "insert") ~> (pc[Local] = "idle")
    /\ (borrados # <<>>) ~> (borrados = <<>>)

\* C20: at login the normalized (lower-cased, trimmed) email takes the
\* password path if and only if it is in the allow-list (the table the
\* WhitelistManager edits) when the lookup is answered, and the emailed
\* one-time link otherwise.
C20_CaminoPorLista ==
    [][(login.pc = "lookup" /\ login'.pc # "lookup") =>
          login'.via = IF login.email \in whitelist.filas THEN "password" ELSE "otp"]_vars

\* the blocks rendered, with the room they are on
Bloques ==
    UNION { { [salon |-> bloques[n].salon] @@ bloques[n].blocks[k] :
                  k \in 1..Len(bloques[n].blocks) } : n \in 1..Len(bloques) }

\* the row of the snapshot a block is drawn for
FilaDelBloque(b) == reservas[CHOOSE n \in 1..Len(reservas) : reservas[n].id = b.id]

\* minutes since local midnight of an instant, and the px of a span of minutes
MinutoDelDia(t) == (t - getTimezoneOffset) % MinPorDia
Px(minutos) == (minutos * 60) \div 60

\* C21: for a block of a reservation on one day from s to e with s < e,
\* s <= 22:00 and e >= 06:00, the offset is (max(s, 06:00) - 06:00) x 60 px/h
\* and the height (min(e, 22:00) - max(s, 06:00)) x 60 px/h; 09:00-10:30 is
\* placed at 180 with height 90 and 05:00-07:00 at 0 with height 60.
C21_Posicion ==
    \A b \in Bloques :
        LET r == FilaDelBloque(b)
            s == MinutoDelDia(r.fecha_inicio)
            e == MinutoDelDia(r.fecha_fin)
            desde == IF s > 6 * 60 THEN s ELSE 6 * 60
            hasta == IF e < 22 * 60 THEN e ELSE 22 * 60
        IN  (DiaLocal(r.fecha_inicio) = DiaLocal(r.fecha_fin) /\ s < e
             /\ s <= 22 * 60 /\ e >= 6 * 60) =>
               /\ b.top = Px(desde - 6 * 60)
               /\ b.height = Px(hasta - desde)
               /\ (s = 9 * 60 /\ e = 10 * 60 + 30) => (b.top = 180 /\ b.height = 90)
               /\ (s = 5 * 60 /\ e = 7 * 60) => (b.top = 0 /\ b.height = 60)

\* C21 witness: the day shows a block of 09:00-10:30 and one of 05:00-07:00
C21_Witness ==
    /\ \E b \in Bloques : b.top = 180 /\ b.height = 90
    /\ \E b \in Bloques :
          /\ b.top = 0 /\ b.height = 60
          /\ MinutoDelDia(FilaDelBloque(b).fecha_inicio) = 5 * 60

\* C22: for every block the offset and the offset plus the height lie
\* between 0 and (22 - 6) x 60 = 960 px.
C22_DentroDelRango ==
    \A b \in Bloques :
        /\ 0 <= b.top /\ b.top <= 960
        /\ 0 <= b.top + b.height /\ b.top + b.height <= 960

\* C23: no block with a height of zero or less is rendered on a timeline.
C23_SinBloquesVacios == \A b \in Bloques : b.height > 0

\* C24: in a recurring submission the calls to the store are the probes of
\* the occurrences 0, 1, 2, ... in that order, one for each, followed by at
\* most one insert; the insert comes after the last probe and carries one row
\* for every occurrence probed, of one room and of the current user,
\* occurrence k with the suffix k + 1.
C24_SondasAntesDeEscribir ==
    \A c \in Clients :
        LET lg == log[c]
            sondas == Llamadas(c, "probe")
            escrituras == Llamadas(c, "insert")
            np == Cardinality(sondas)
        IN  (esRecurrente[c] /\ lg # <<>>) =>
              /\ sondas = 1..np
              /\ \A n \in sondas :
                    /\ lg[n].k = n - 1
                    /\ lg[n].ini = OcurrenciaInicio(c, n - 1)
                    /\ lg[n].fin = OcurrenciaFin(c, n - 1)
              /\ escrituras \subseteq {np + 1}
              /\ \A m \in escrituras :
                    /\ \A n \in sondas : lg[n].res # "pendiente"
                    /\ Len(lg[m].filas) = np
                    /\ \E s \in Salones :
                          \A k \in 0..(np - 1) :
                              lg[m].filas[k + 1]
                                = Fila(s, c, OcurrenciaInicio(c, k), OcurrenciaFin(c, k), k + 1)
                    /\ pc[c] = "insert" =>
                          \A k \in 1..np : lg[m].filas[k].salon_id = selectedSalon[c]

\* C24 witness: a series of at least two occurrences was probed and then
\* written in one batch
C24_Witness ==
    \E c \in Clients :
        /\ esRecurrente[c]
        /\ Cardinality(Llamadas(c, "probe")) >= 2
        /\ \E m \in Llamadas(c, "insert") :
              log[c][m].res = "ok" /\ Len(log[c][m].filas) >= 2

(* ------------------ series bounded by an early stop date ---------------- *)
\* session c submitted a series in stop-date mode whose stop date is empty
\* or reads as an instant before the start of the first occurrence
SerieSinOcurrencias(c) ==
    /\ CamposAceptados(c)
    /\ esRecurrente[c]
    /\ tipoRecurrencia[c] = "date"
    /\ log[c] # <<>>
    /\ \/ fechaFinRecurrencia[c] = NaN
       \/ DateUTC(fechaFinRecurrencia[c]) < fechaInicio[c]

\* C30: in stop-date mode, when the stop date is not set or is earlier than
\* the start of the first occurrence, the series issues no probe; its first
\* and only call to the store is a batch insert of zero rows, and when that
\* insert is answered without error the form reports 0 reservations created
\* and shows no error.
C30_SerieVacia ==
    \A c \in Clients :
        SerieSinOcurrencias(c)
        => /\ Llamadas(c, "probe") = {}
           /\ log[c][1].op = "insert"
           /\ log[c][1].filas = <<>>
           /\ Llamadas(c, "insert") = {1}
           /\ log[c][1].res = "ok"
                 => /\ error[c] = NoError
                    /\ Llamadas(c, "alert") # {}
                    /\ \A n \in Llamadas(c, "alert") : log[c][n].k = 0

\* a series whose stop date is the day of its start, which reads as the
\* midnight before it, had its empty batch accepted and reported 0 created
C30_Witness ==
    \E c \in Clients :
        /\ SerieSinOcurrencias(c)
        /\ log[c][1].res = "ok"
        /\ fechaFinRecurrencia[c] # NaN
        /\ \E n \in Llamadas(c, "alert") : log[c][n].k = 0

(* ------------------- the conflict a verdict reports --------------------- *)
\* positions in the snapshot of the rows of room s that overlap the window
\* of the search
QueSolapan(s) ==
    { m \in 1..Len(reservas) :
        /\ reservas[m].salon_id = s
        /\ SeSolapan(VentanaInicio, VentanaFin,
                     reservas[m].fecha_inicio, reservas[m].fecha_fin) }

\* C25: after a search every room has at most one verdict, and a verdict
\* carries at most one reservation: none when no row of its room overlaps
\* the window, and otherwise the overlapping row of that room that comes
\* first in the order of the snapshot, however many rows overlap.
C25_PrimeraEnOrden ==
    ConsultaValida =>
        \A n \in 1..Len(resultados) :
            LET s == resultados[n].salon
                cf == resultados[n].conflicto
            IN  /\ \A m \in 1..Len(resultados) : resultados[m].salon = s => m = n
                /\ resultados[n].disponible <=> QueSolapan(s) = {}
                /\ QueSolapan(s) = {} => cf = 0
                /\ QueSolapan(s) # {} =>
                      /\ cf \in QueSolapan(s)
                      /\ \A m \in QueSolapan(s) : cf <= m

\* a search, other than the one of two back-to-back reservations, in which
\* two rows of a room overlap the window and the verdict of the room carries
\* the one that comes first in the snapshot
C25_Witness ==
    /\ ConsultaValida
    /\ \E n \in 1..Len(resultados) :
          LET s == resultados[n].salon
          IN  /\ ~ DosSeguidas(s)
              /\ Cardinality(QueSolapan(s)) >= 2
              /\ ~ resultados[n].disponible
              /\ resultados[n].conflicto \in QueSolapan(s)
              /\ \E m \in QueSolapan(s) : m > resultados[n].conflicto

(* ------------------- the fallback of the reservation load --------------- *)
\* a write of the user ends with an error in this step: a cancellation, a
\* write of a room, or the insert of the booking form
FalloDeEscritura ==
    \/ /\ Len(borrados') < Len(borrados)
       /\ ultima'.op = "delete"
       /\ ultima'.res = "error"
    \/ /\ Len(adminOps') < Len(adminOps)
       /\ ultima'.res = "error"
    \/ /\ pc[Local] = "insert"
       /\ pc'[Local] = "idle"
       /\ error'[Local] # NoError

\* the entries of the log of the local session that are the same call of
\* loadReservas before and after the step, at a different stage
AvanceCargaForm ==
    { n \in DOMAIN log[Local] \cap DOMAIN log'[Local] :
        /\ log[Local][n].op = "loadReservas"
        /\ log'[Local][n].op = "loadReservas"
        /\ log[Local][n].res \in {"pendiente", "fallback"}
        /\ log'[Local][n].res # log[Local][n].res }

\* C26: the fallback query of loadReservas is issued only in the step in
\* which the first (joined) query of that call is answered, in place of the
\* end of the call and without touching the snapshot; a first query that is
\* answered with rows or loses against its timer ends the call with no
\* fallback.  The answer to the fallback ends the call: its rows become the
\* snapshot, an error empties it, and nothing is issued again.  The end of a
\* room load and the failure of a write start no call at all.
C26_SoloFallback ==
    [][/\ cargas'["fallback"] > cargas["fallback"] =>
              /\ cargas' = [cargas EXCEPT !["loadReservas"] = @ - 1, !["fallback"] = @ + 1]
              /\ reservas' = reservas
              /\ EnVuelo' = EnVuelo
       /\ (cargas'["loadReservas"] < cargas["loadReservas"]
           /\ cargas'["fallback"] = cargas["fallback"]) =>
              /\ ultima'.op = "loadReservas"
              /\ ultima'.res \in {"ok", "timeout"}
              /\ ultima'.res = "ok" => reservas' \in Ordenadas(store)
              /\ ultima'.res = "timeout" => reservas' = <<>>
              /\ EnVuelo' = EnVuelo - 1
       /\ cargas'["fallback"] < cargas["fallback"] =>
              /\ cargas' = [cargas EXCEPT !["fallback"] = @ - 1]
              /\ ultima'.op = "loadReservas"
              /\ ultima'.res \in {"ok", "error"}
              /\ ultima'.res = "ok" => reservas' \in Ordenadas(store)
              /\ ultima'.res = "error" => reservas' = <<>>
              /\ EnVuelo' = EnVuelo - 1
       /\ \A n \in AvanceCargaForm :
              IF log'[Local][n].res = "fallback"
              THEN reservas' = reservas /\ EnVuelo' = EnVuelo
              ELSE /\ log[Local][n].res = "pendiente" => log'[Local][n].res \in {"ok", "timeout"}
                   /\ log[Local][n].res = "fallback" => log'[Local][n].res \in {"ok", "error"}
                   /\ log'[Local][n].res = "ok" => reservas' \in Ordenadas(store)
                   /\ log'[Local][n].res # "ok" => reservas' = <<>>
                   /\ EnVuelo' = EnVuelo - 1
       /\ cargas'["loadSalones"] < cargas["loadSalones"] =>
              /\ ultima'.op = "loadSalones"
              /\ EnVuelo' = EnVuelo - 1
       /\ FalloDeEscritura => EnVuelo' = EnVuelo - 1]_vars

\* the reload started by a booking ended with the failure of its fallback
\* query, which only the failure of its joined query can have issued, and
\* the snapshot is empty while the table holds the booking
C26_Witness ==
    /\ \E n \in DOMAIN log[Local] :
          log[Local][n].op = "loadReservas" /\ log[Local][n].res = "error"
    /\ ultima = [op |-> "loadReservas", res |-> "error", antes |-> 1]
    /\ reservas = <<>>
    /\ \E k \in 1..Len(store) : store[k].user_id = Local

(* ---------------- answers that arrive after the cleanup ----------------- *)
\* the first query of a call of loadReservas is answered with rows or loses
\* against its timer, or its fallback query is answered: the call ends
FinCargaReservas ==
    \/ cargas'["fallback"] < cargas["fallback"]
    \/ cargas'["loadReservas"] < cargas["loadReservas"]
       /\ cargas'["fallback"] = cargas["fallback"]

\* C27: a load whose effect was cleaned up does not write.  While nobody is
\* signed in and no cancellation waits, every running call of loadReservas
\* was started by the effect of an earlier user, whose cleanup has run: the
\* step in which such a call ends leaves the reservation snapshot as it is.
C27_RespuestaTardiaNoEscribe ==
    [][(user = NoUser /\ user' = NoUser /\ borrados = <<>> /\ ultima.op # "delete"
        /\ FinCargaReservas)
       => reservas' = reservas]_vars

(* -------------------------- startup of the shell ------------------------ *)
\* a safety timer that stops itself and leaves the loading screen up
TrasTimeoutSinEfecto(a) == [a EXCEPT !.timer = FALSE]

\* the callback of the startup timer: if (isMounted) setLoading(false)
TrasTimeout(a) == [loading |-> FALSE, timer |-> FALSE]

\* The 3000 ms timer set by the auth effect fires; the listener has not run,
\* or it would have cleared the timer.
loadingTimeout ==
    /\ arranque.timer
    /\ arranque' = TrasTimeout(arranque)
    /\ UNCHANGED <<store, nextId, sesionVars, consultaVars, salonesDB, authVars, cargaVars,
                   misVars, adminVars, loginVars, calendarioVars>>

\* the application right after it was mounted over the table `tabla`:
\* loading is true, the startup timer runs, nobody is signed in and the
\* effect on [user] has run for no user
Montaje(tabla) ==
    /\ store = tabla
    /\ nextId = [reservas |-> Len(tabla) + 1, salones |-> 3]
    /\ salonesDB = <<Salon(1, 20), Salon(2, 30)>>
    /\ user = NoUser
    /\ isAdmin = FALSE
    /\ currentView = "consulta"
    /\ rolesEnVuelo = <<>>
    /\ cargas = EfectoUsuario(SinCargas, NoUser)
    /\ ultima = NoCarga
    /\ cancelando = NoId
    /\ borrados = <<>>
    /\ salonForm = NoSalonForm
    /\ adminOps = <<>>
    /\ login = NoLogin
    /\ selectedDate = Hoy
    /\ bloques = <<>>
    /\ arranque = [loading |-> TRUE, timer |-> TRUE]
    /\ whitelist = NoWhitelist
    /\ perfiles = {}
    /\ InitSesiones
    /\ InitConsulta(<<>>, <<>>)

\* one reservation in each room, both over the window 10:30 to 11:30 of day 1
UnaPorSalon ==
    WithIds(<<Fila(1, 1, DateLocal(1, 10 * 60), DateLocal(1, 11 * 60), 0),
              Fila(2, 2, DateLocal(1, 11 * 60), DateLocal(1, 12 * 60), 0)>>, 1)

\* tables the application of a visitor is started over
TablasVisitante == {<<>>, DosDuenos, UnaPorSalon}

InitVisitante == \E t \in TablasVisitante : Montaje(t)

\* the auth service reports that there is no session
SinSesion == AuthEvent(NoUser)

\* `if (loading) return <loading screen>`: the views take clicks once the
\* loading screen is gone
VistaVisitante == ~ arranque.loading /\ Vista
BuscarVisitante == ~ arranque.loading /\ currentView = "consulta" /\ Buscar
LimpiarVisitante == ~ arranque.loading /\ currentView = "consulta" /\ handleLimpiar

\* the application of a visitor: no session is ever reported
NextVisitante ==
    \/ SinSesion
    \/ loadingTimeout
    \/ CargaSalones
    \/ Temporizador
    \/ VistaVisitante
    \/ BuscarVisitante
    \/ LimpiarVisitante

SpecVisitante == InitVisitante /\ [][NextVisitante]_vars

\* rows of the table that overlap the window of the search
EnLaTabla ==
    { m \in 1..Len(store) :
        SeSolapan(VentanaInicio, VentanaFin, store[m].fecha_inicio, store[m].fecha_fin) }

InitArranque == Montaje(DosDuenos)

\* startup and what follows it: auth events with and without a session, the
\* role lookups and the loads they start
NextArranque ==
    \/ Sesion
    \/ loadingTimeout
    \/ Rol_
    \/ CargaSalones
    \/ CargaReservas
    \/ CargaFallback
    \/ Temporizador

\* setTimeout(..., 3000): a timer that was set and is not cleared fires.  The
\* auth service and the store owe nothing.
SpecArranque == InitArranque /\ [][NextArranque]_vars /\ WF_vars(loadingTimeout)

\* C29: the loading flag of the shell becomes false in every run, with or
\* without an auth event, and a step from a state in which it is false leads
\* to a state in which it is false.
C29_FinDeArranque ==
    /\ <>(~ arranque.loading)
    /\ [][(~ arranque.loading) => (~ arranque'.loading)]_vars

\* the loading screen is gone while the room load of the startup still runs,
\* nobody having signed in and no timer pending
C29_Witness ==
    /\ ~ arranque.loading
    /\ ~ arranque.timer
    /\ user = NoUser
    /\ ultima = NoCarga
    /\ cargas = EfectoUsuario(SinCargas, NoUser)

====
